---------------------------- MODULE Spec2Model ----------------------------
(***************************************************************************)
(* Model of the kt_errors package (keytiles/lib-errorhandling-golang):     *)
(* the Fault value, its builder, the JSON serializers and the conversion   *)
(* of any error into a public Fault.                                       *)
(*                                                                         *)
(* Go values are modelled as follows.                                      *)
(*   - A string that the code takes apart or puts together (a message      *)
(*     template, a label value, a transaction id) is a sequence of atoms;  *)
(*     the atoms "{" and "}" are the braces of a placeholder, every other  *)
(*     atom is an indivisible piece of text.  "" is << >>.                 *)
(*   - A string that is only compared (a kind, an error code, a label key, *)
(*     an audience name) is a TLA+ string.                                 *)
(*   - A Go map is a reference into the heap `maps`; the reference 0 is    *)
(*     the nil map.  A slice of strings that is never shared is a record   *)
(*     [isNil, elems]; the call stack is a slice header [arr, len, cap]    *)
(*     over a backing array of the heap `arrs`.                            *)
(*   - An `error` interface value is an integer: 0 is nil, a negative      *)
(*     number is an error that is no Fault, n > 0 is the pointer to        *)
(*     faults[n].                                                          *)
(***************************************************************************)
EXTENDS Integers, Sequences, FiniteSets, TLC

VARIABLES
    maps,       \* heap of Go maps (labels, audience templates)
    arrs,       \* heap of backing arrays of call stacks
    faults,     \* heap of built defaultFault structs
    builder,    \* the FaultBuilder in use, or NoBuilder
    call,       \* the last call made: its name, arguments and how it ended
    out,        \* the JSON document written by the last serializer call
    log,        \* the entries written to the loggers so far
    pc          \* where the calling code stands

vars == <<maps, arrs, faults, builder, call, out, log, pc>>

---------------------------------------------------------------------------
(* Bounds of the model. *)

\* the error codes a caller puts on a Fault are the first MaxCodes of CodeList
MaxCodes == 1
\* the options of one conversion call are sequences of at most MaxOptions
MaxOptions == 2

\* a builder is used for at most MaxFaults calls of Build
MaxFaults == 2
\* the calling code makes at most MaxCalls calls on a builder and its Faults
MaxCalls == 3

---------------------------------------------------------------------------
(* Program constants. *)

RuntimeFault == "runtime"
IllegalStateFault == "illegal_state"
NotImplementedFault == "not_implemented"
ValidationFault == "validation"
ConstraintViolationFault == "constraint_violation"
ResourceNotFoundFault == "resource_not_found"
AuthenticationFault == "authentication"
AuthorizationFault == "authorization"

ERRCODE_INTERNAL_ERROR == "internal"
ILLEGALSTATE_ERRCODE_CONFIG_ERROR == "config_error"
ILLEGALSTATE_ERRCODE_DEPENDENCY_UNAVAILABLE == "unavailable_dependency"
ILLEGALSTATE_ERRCODE_EXCPECTATION_FAILED == "expectation_failed"
ILLEGALSTATE_ERRCODE_TIMED_OUT == "timed_out"
ILLEGALSTATE_ERRCODE_EXHAUSTED == "exhausted"
CONSTRAINTVIOLATION_ERRCODE_ID_ALREADY_TAKEN == "id_already_taken"
CONSTRAINTVIOLATION_ERRCODE_ALREADY_EXIST == "already_exists"
CONSTRAINTVIOLATION_ERRCODE_DOES_NOT_EXIST == "not_exists"
AUTHENTICATION_ERRCODE_MISSING == "auth_data_missing"
AUTHENTICATION_ERRCODE_NOT_SUPPORTED == "auth_method_not_supported"
AUTHORIZATION_NO_PERMISSION == "no_permission"

MSGAUDIENCE_USER == "user"

ResolveMessages == 1
LeaveMessageVarsInLabels == 2
PrettyPrint == 3
AllowNonPublicSerialization == 4

logLabelsOption == 1
whitelistedKindsOption == 2

\* capacity of the call stack a new Fault starts with
CallStackCap == 4

\* the kind the serializers write for a nil Fault and, in ToFullJSON, for a
\* non-public one
NaNKind == "NaN"

---------------------------------------------------------------------------
(* Helpers on sequences and maps. *)

Range(s) == {s[i] : i \in DOMAIN s}

NoDuplicates(s) == \A i, j \in DOMAIN s : s[i] = s[j] => i = j

\* all sequences without repetition that enumerate the set S
Orders(S) ==
    {s \in [1..Cardinality(S) -> S] : \A i, j \in 1..Cardinality(S) : s[i] = s[j] => i = j}

\* all sequences over S of length at most n
SeqsUpTo(S, n) == UNION {[1..k -> S] : k \in 0..n}

EmptyMap == [k \in {} |-> << >>]

Put(m, key, value) ==
    [k \in (DOMAIN m) \cup {key} |-> IF k = key THEN value ELSE m[k]]

\* maps.Copy(dst, src)
MapsCopy(dst, src) ==
    [k \in (DOMAIN dst) \cup (DOMAIN src) |-> IF k \in DOMAIN src THEN src[k] ELSE dst[k]]

\* delete(m, key) for every key of keys
DeleteAll(m, keys) == [k \in (DOMAIN m) \ keys |-> m[k]]

\* the content of the map a reference points to; reading a nil map reads an
\* empty map
Deref(mp, ref) == IF ref = 0 THEN EmptyMap ELSE mp[ref]

\* m[key] of Go for a map of strings: the zero value "" for a missing key
Lookup(m, key) == IF key \in DOMAIN m THEN m[key] ELSE << >>

NilSlice == [isNil |-> TRUE, elems |-> << >>]
Slice(s) == [isNil |-> FALSE, elems |-> s]

---------------------------------------------------------------------------
(* kt_utils: the template resolver. *)

Brace == {"{", "}"}

\* position i of template t starts a placeholder {name}
IsPlaceholderAt(t, i) ==
    /\ i + 2 <= Len(t)
    /\ t[i] = "{"
    /\ t[i + 1] \notin Brace
    /\ t[i + 2] = "}"

StringExtractVariableNames(t) ==
    {t[i + 1] : i \in {j \in 1..Len(t) : IsPlaceholderAt(t, j)}}

RECURSIVE ResolveFrom(_, _, _)
ResolveFrom(t, labels, i) ==
    IF i > Len(t) THEN << >>
    ELSE IF IsPlaceholderAt(t, i) /\ t[i + 1] \in DOMAIN labels
         THEN labels[t[i + 1]] \o ResolveFrom(t, labels, i + 3)
         ELSE <<t[i]>> \o ResolveFrom(t, labels, i + 1)

StringSimpleResolve(t, labels) == ResolveFrom(t, labels, 1)

---------------------------------------------------------------------------
(* The machine.  Every operation of the package is an operator on a        *)
(* machine record                                                          *)
(*   x = [maps, arrs, faults, b, r, doc, tmp, log, panicked]               *)
(* and returns the record after the operation: the three heaps, the        *)
(* FaultBuilder b = [fault, errCodes] in use, the value r the operation    *)
(* returned (a reference or a pointer), the JSON document doc it wrote,    *)
(* the local variables tmp of the running function, the log, and whether   *)
(* the goroutine has panicked.                                             *)
(* A method of *defaultFault takes the struct it is called on as a target  *)
(* t: 0 is the struct embedded in the builder, n > 0 is faults[n].         *)

\* no builder in use; no call made yet; no document written; no local variables
NoBuilder == [absent |-> TRUE]
NoCall == [op |-> "none"]
NoOut == [form |-> "none"]
NoTmp == [absent |-> TRUE]

FaultOf(x, t) == IF t = 0 THEN x.b.fault ELSE x.faults[t]

SetFault(x, t, f) ==
    IF t = 0 THEN [x EXCEPT !.b.fault = f] ELSE [x EXCEPT !.faults[t] = f]

---------------------------------------------------------------------------
(* fault.go: the defaultFault struct and its methods. *)

newInitializedFault(x, errType) ==
    [x EXCEPT
        !.arrs = Append(@, [i \in 1..CallStackCap |-> ""]),
        !.b = [fault |-> [Kind |-> errType,
                          MessageTemplate |-> << >>,
                          MessageTemplatesByAudience |-> 0,
                          Retryable |-> FALSE,
                          ErrorCodes |-> NilSlice,
                          Labels |-> 0,
                          public |-> FALSE,
                          cause |-> 0,
                          callStack |-> [arr |-> Len(x.arrs) + 1, len |-> 0,
                                         cap |-> CallStackCap]],
               errCodes |-> {}]]

GetKind(f) == f.Kind

GetMessageTemplate(f) == f.MessageTemplate

GetMessage(mp, f) == StringSimpleResolve(f.MessageTemplate, Deref(mp, f.Labels))

GetMessageTemplateForAudience(mp, f, forAudience) ==
    IF f.MessageTemplatesByAudience = 0 THEN << >>
    ELSE Lookup(mp[f.MessageTemplatesByAudience], forAudience)

GetMessageForAudience(mp, f, forAudience) ==
    IF f.MessageTemplatesByAudience = 0 THEN << >>
    ELSE StringSimpleResolve(GetMessageTemplateForAudience(mp, f, forAudience),
                             Deref(mp, f.Labels))

\* allocates the copy and returns the reference to it in r
\* a GetMessageTemplatesByAudience that returns the map of the Fault itself
\* where the Fault has one
GetMessageTemplatesByAudienceShared(x, t) ==
    IF FaultOf(x, t).MessageTemplatesByAudience = 0
    THEN [x EXCEPT !.maps = Append(@, EmptyMap), !.r = Len(x.maps) + 1]
    ELSE [x EXCEPT !.r = FaultOf(x, t).MessageTemplatesByAudience]

GetMessageTemplatesByAudience(x, t) ==
    [x EXCEPT !.maps = Append(@, Deref(x.maps, FaultOf(x, t).MessageTemplatesByAudience)),
              !.r = Len(x.maps) + 1]

\* IsPublic that takes every Fault for non-public, which C10 tells from the
\* code
IsPublicNever(f) == FALSE

IsPublic(f) == f.public

\* IsRetryable that answers false for every Fault, which C11 tells from the
\* code
IsRetryableNever(f) == FALSE

IsRetryable(f) == f.Retryable

\* a copy of the codes, never nil
GetErrorCodes(f) == f.ErrorCodes.elems

HasErrorCode(f, codes) ==
    IF f.ErrorCodes.isNil THEN FALSE
    ELSE \E c \in codes : c \in Range(f.ErrorCodes.elems)

GetCause(f) == f.cause

\* allocates the copy and returns the reference to it in r
GetLabels(x, t) ==
    [x EXCEPT !.maps = Append(@, Deref(x.maps, FaultOf(x, t).Labels)),
              !.r = Len(x.maps) + 1]

\* the machine with the map of labels of the target created if it was nil
WithLabelsMap(x, t) ==
    IF FaultOf(x, t).Labels # 0 THEN x
    ELSE SetFault([x EXCEPT !.maps = Append(@, EmptyMap)], t,
                  [FaultOf(x, t) EXCEPT !.Labels = Len(x.maps) + 1])

StoreLabel(x, t, key, value) ==
    [x EXCEPT !.maps[FaultOf(x, t).Labels] = Put(@, key, value)]

AddLabel(x, t, key, value) ==
    IF key = "" THEN x ELSE StoreLabel(WithLabelsMap(x, t), t, key, value)

StoreLabels(x, t, m) ==
    [x EXCEPT !.maps[FaultOf(x, t).Labels] = MapsCopy(@, m)]

\* labels is [isNil, m]: the map the caller passes
AddLabels(x, t, labels) ==
    IF labels.isNil THEN x ELSE StoreLabels(WithLabelsMap(x, t), t, labels.m)

\* append(callStack, v): in place while the capacity lasts, else into a new
\* backing array of twice the capacity
AppendCallStack(x, t, v) ==
    IF FaultOf(x, t).callStack.len < FaultOf(x, t).callStack.cap
    THEN SetFault([x EXCEPT !.arrs[FaultOf(x, t).callStack.arr]
                                  [FaultOf(x, t).callStack.len + 1] = v],
                  t, [FaultOf(x, t) EXCEPT !.callStack.len = @ + 1])
    ELSE SetFault([x EXCEPT !.arrs = Append(@,
                        [i \in 1..(2 * FaultOf(x, t).callStack.cap) |->
                            IF i <= FaultOf(x, t).callStack.len
                            THEN x.arrs[FaultOf(x, t).callStack.arr][i]
                            ELSE IF i = FaultOf(x, t).callStack.len + 1 THEN v
                            ELSE ""])],
                  t, [FaultOf(x, t) EXCEPT
                        !.callStack = [arr |-> Len(x.arrs) + 1,
                                       len |-> @.len + 1,
                                       cap |-> 2 * @.cap]])

\* the call stack as stored: the source first
StoredCallStack(ar, f) == SubSeq(ar[f.callStack.arr], 1, f.callStack.len)

GetSource(ar, f) == IF f.callStack.len > 0 THEN ar[f.callStack.arr][1] ELSE ""

\* slices.Reverse
Reverse(s) == [i \in 1..Len(s) |-> s[Len(s) + 1 - i]]

\* a GetCallStack that returns the slice the Fault holds
GetCallStackShared(x, t) == [x EXCEPT !.r = FaultOf(x, t).callStack]

\* a copy in a new array, the last caller first; the slice is returned in r
GetCallStack(x, t) ==
    [x EXCEPT !.arrs = Append(@, Reverse(StoredCallStack(x.arrs, FaultOf(x, t)))),
              !.r = [arr |-> Len(x.arrs) + 1,
                     len |-> FaultOf(x, t).callStack.len,
                     cap |-> FaultOf(x, t).callStack.len]]

\* caller is the '.'-joined text of the parts
AddCallerToCallStack(x, t, caller) == AppendCallStack(x, t, caller)

AddContextToMessage(x, t, contextMsgTemplate) ==
    IF contextMsgTemplate = << >> THEN x
    ELSE SetFault(x, t, [FaultOf(x, t) EXCEPT
                            !.MessageTemplate = contextMsgTemplate \o @])

\* the characters strings.TrimRight cuts off in AddContextToAudienceMessage
TrimCutset == {" ", "\t", "\r", "\n", "-", ":"}

\* strings.TrimRight(s, cutset), every character of the cutset an atom
RECURSIVE TrimRight(_, _)
TrimRight(s, cutset) ==
    IF s # << >> /\ s[Len(s)] \in cutset
    THEN TrimRight(SubSeq(s, 1, Len(s) - 1), cutset)
    ELSE s

\* an assignment to an entry of a nil map panics
AddContextToAudienceMessage(x, t, forAudience, contextMsgTemplate) ==
    IF contextMsgTemplate = << >> \/ forAudience = "" THEN x
    ELSE IF FaultOf(x, t).MessageTemplatesByAudience = 0
         THEN [x EXCEPT !.panicked = TRUE]
         ELSE [x EXCEPT !.maps[FaultOf(x, t).MessageTemplatesByAudience] =
                    Put(@, forAudience,
                        IF forAudience \in DOMAIN @
                        THEN contextMsgTemplate \o @[forAudience]
                        ELSE TrimRight(contextMsgTemplate, TrimCutset))]

\* the loop of AddErrorCodes: codes c[i..] appended to elems unless empty or
\* already there
RECURSIVE AppendCodes(_, _, _)
AppendCodes(elems, c, i) ==
    IF i > Len(c) THEN elems
    ELSE AppendCodes(IF c[i] # "" /\ c[i] \notin Range(elems)
                     THEN Append(elems, c[i]) ELSE elems,
                     c, i + 1)

\* c is the sequence of the codes passed
AddErrorCodes(x, t, c) ==
    SetFault(x, t, [FaultOf(x, t) EXCEPT
                        !.ErrorCodes = Slice(AppendCodes(@.elems, c, 1))])

---------------------------------------------------------------------------
(* fault_builder.go: the FaultBuilder. *)

NewPublicFaultBuilder(x, errType) ==
    [newInitializedFault(x, errType) EXCEPT !.b.fault.public = TRUE]

NewFaultBuilder(x, errType) ==
    [newInitializedFault(x, errType) EXCEPT !.b.fault.public = FALSE]

\* a WithIsRetryable that sets the flag for every kind
WithIsRetryableOfAnyKind(x, flag) == [x EXCEPT !.b.fault.Retryable = flag]

WithIsRetryable(x, flag) ==
    IF x.b.fault.Kind \in {NotImplementedFault, ValidationFault, ResourceNotFoundFault}
    THEN x
    ELSE [x EXCEPT !.b.fault.Retryable = flag]

WithMessageTemplate(x, msg) == [x EXCEPT !.b.fault.MessageTemplate = msg]

\* the machine with the map of audience templates of the builder created if
\* it was nil
WithAudienceMap(x) ==
    IF x.b.fault.MessageTemplatesByAudience # 0 THEN x
    ELSE [x EXCEPT !.maps = Append(@, EmptyMap),
                   !.b.fault.MessageTemplatesByAudience = Len(x.maps) + 1]

StoreAudienceTemplates(x, templates) ==
    [x EXCEPT !.maps[x.b.fault.MessageTemplatesByAudience] = MapsCopy(@, templates)]

WithMessageTemplateForAudience(x, forAudience, msg) ==
    StoreAudienceTemplates(WithAudienceMap(x), [a \in {forAudience} |-> msg])

\* templates is the content of the map the caller passes (nil reads as empty)
WithMessageTemplatesByAudience(x, templates) ==
    IF DOMAIN templates = {} THEN x
    ELSE StoreAudienceTemplates(WithAudienceMap(x), templates)

WithoutMessageTemplateForAudiences(x, forAudiences) ==
    IF x.b.fault.MessageTemplatesByAudience = 0 THEN x
    ELSE [x EXCEPT
            !.maps[x.b.fault.MessageTemplatesByAudience] = DeleteAll(@, forAudiences),
            !.b.fault.MessageTemplatesByAudience =
                IF DOMAIN DeleteAll(x.maps[@], forAudiences) = {} THEN 0 ELSE @]

WithExactMessageTemplatesByAudience(x, templates) ==
    IF DOMAIN templates = {} THEN [x EXCEPT !.b.fault.MessageTemplatesByAudience = 0]
    ELSE [x EXCEPT !.maps = Append(@, templates),
                   !.b.fault.MessageTemplatesByAudience = Len(x.maps) + 1]

WithCause(x, e) == [x EXCEPT !.b.fault.cause = e]

WithoutCause(x) == [x EXCEPT !.b.fault.cause = 0]

\* src is the '.'-joined text of the parts
WithSource(x, src) == AppendCallStack(x, 0, src)

WithErrorCodes(x, c) == [x EXCEPT !.b.errCodes = @ \cup c]

WithoutErrorCodes(x, c) == [x EXCEPT !.b.errCodes = @ \ c]

WithLabel(x, key, value) == AddLabel(x, 0, key, value)

WithLabels(x, labels) == AddLabels(x, 0, labels)

WithoutLabels(x, keys) ==
    IF x.b.fault.Labels = 0 THEN x
    ELSE [x EXCEPT
            !.maps[x.b.fault.Labels] = DeleteAll(@, keys),
            !.b.fault.Labels = IF DOMAIN DeleteAll(x.maps[@], keys) = {} THEN 0 ELSE @]

\* labels is the content of the map the caller passes (nil reads as empty)
WithExactLabels(x, labels) ==
    IF DOMAIN labels = {} THEN [x EXCEPT !.b.fault.Labels = 0]
    ELSE [x EXCEPT !.maps = Append(@, labels),
                   !.b.fault.Labels = Len(x.maps) + 1]

\* ktsets.Set.GetAll: the elements in the order ord, which the set does not
\* promise; ord enumerates every code
GetAll(set, ord) == SelectSeq(ord, LAMBDA c : c \in set)

\* Build after the copy of the labels: x.r is the reference to the labels of
\* the new Fault
BuildFault(x, labelsRef, ord) ==
    [x EXCEPT
        !.faults = Append(@, [x.b.fault EXCEPT
                        !.Labels = labelsRef,
                        !.ErrorCodes = IF Cardinality(x.b.errCodes) > 0
                                       THEN Slice(GetAll(x.b.errCodes, ord))
                                       ELSE @]),
        !.b.fault.Retryable =
            IF /\ @
               /\ \/ /\ x.b.fault.Kind = AuthenticationFault
                     /\ x.b.errCodes \cap {AUTHENTICATION_ERRCODE_MISSING,
                                           AUTHENTICATION_ERRCODE_NOT_SUPPORTED} # {}
                  \/ /\ x.b.fault.Kind = AuthorizationFault
                     /\ AUTHORIZATION_NO_PERMISSION \in x.b.errCodes
            THEN FALSE
            ELSE @,
        !.r = Len(x.faults) + 1]

\* a Build that hands the builder's own map of labels to the new Fault
BuildSharingLabels(x, ord) == BuildFault(x, x.b.fault.Labels, ord)

\* returns the pointer to the new Fault in r
Build(x, ord) ==
    IF x.b.fault.Labels # 0
    THEN BuildFault(GetLabels(x, 0), Len(x.maps) + 1, ord)
    ELSE BuildFault(x, 0, ord)

---------------------------------------------------------------------------
(* util_funcs.go: the conversion of any error into a public Fault.         *)
(* The arguments of a call are a record                                    *)
(*   a = [original, transactionId, loggerToUse, options].                  *)

\* the result of IsFault(err): whether err is a Fault
IsFault(err) == err > 0

OptionLogLabels(labels) ==
    [id |-> logLabelsOption, logLabels |-> labels, kinds |-> {}, flag |-> FALSE]

OptionWhitelistedFaultKinds(inheritErrorCodes, kinds) ==
    [id |-> whitelistedKindsOption, logLabels |-> {}, kinds |-> kinds,
     flag |-> inheritErrorCodes]

NoOptions == [logLabels |-> {}, safeKinds |-> {}, inheritErrorCodes |-> FALSE]

\* the loop over the options: a later option of a kind replaces an earlier one
RECURSIVE ScanOptions(_, _, _)
ScanOptions(options, i, acc) ==
    IF i > Len(options) THEN acc
    ELSE ScanOptions(options, i + 1,
             IF options[i].id = logLabelsOption
             THEN [acc EXCEPT !.logLabels = options[i].logLabels]
             ELSE IF options[i].id = whitelistedKindsOption
                  THEN [acc EXCEPT !.safeKinds = options[i].kinds,
                                   !.inheritErrorCodes = options[i].flag]
                  ELSE acc)

\* the local variables logLabels, safeKinds and inheritErrorCodes
OptionsOf(a) == ScanOptions(a.options, 1, NoOptions)

\* kindWasKept if every whitelist option counted and not the last alone,
\* which C8 tells from the code
KindListedInAnyOption(x, a) ==
    /\ IsFault(a.original)
    /\ \E i \in DOMAIN a.options :
          /\ a.options[i].id = whitelistedKindsOption
          /\ GetKind(x.faults[a.original]) \in a.options[i].kinds

\* the local variable kindWasKept
KindWasKept(x, a) ==
    IsFault(a.original) /\ GetKind(x.faults[a.original]) \in OptionsOf(a).safeKinds

DefaultLoggerName == "keytiles.errorhandling"

\* the logger the entry is written to: the given one, or the default logger
\* when none ("") is given
getDefaultLogger(loggerToUse) ==
    IF loggerToUse = "" THEN DefaultLoggerName ELSE loggerToUse

GenericMessageWithTransactionId ==
    <<"Error occured during processing, details are logged with transactionId '",
      "{", "transactionId", "}", "'">>

GenericMessage == <<"Error occured during processing, details are logged">>

\* builder := NewPublicFaultBuilder(kind).WithCause(original)
ConvStart(x, a) ==
    WithCause(NewPublicFaultBuilder(x, IF KindWasKept(x, a)
                                       THEN GetKind(x.faults[a.original])
                                       ELSE RuntimeFault),
              a.original)

\* the generic code added whether or not the kind was kept, which C7 tells
\* from the code
ConvInternalCodeAlways(x, a) == WithErrorCodes(x, {ERRCODE_INTERNAL_ERROR})

\* the generic code, unless the kind was kept
ConvInternalCode(x, a) ==
    IF ~KindWasKept(x, a) THEN WithErrorCodes(x, {ERRCODE_INTERNAL_ERROR}) ELSE x

\* the codes of the original, when the option asks for them; calling
\* fault.GetErrorCodes() on the nil interface of an error that is no Fault
\* panics
ConvInheritCodes(x, a) ==
    IF ~OptionsOf(a).inheritErrorCodes THEN x
    ELSE IF ~IsFault(a.original) THEN [x EXCEPT !.panicked = TRUE]
    ELSE WithErrorCodes(x, Range(GetErrorCodes(x.faults[a.original])))

\* the default message without regard to the transaction id, which C6 tells
\* from the code
ConvDefaultMessagePlain(x, a) == WithMessageTemplate(x, GenericMessage)

\* the default message and the transactionId label
ConvDefaultMessage(x, a) ==
    IF a.transactionId # << >>
    THEN WithLabel(WithMessageTemplate(x, GenericMessageWithTransactionId),
                   "transactionId", a.transactionId)
    ELSE WithMessageTemplate(x, GenericMessage)

\* labels of the log event that carry the transaction id whatever the
\* caller's labels are
LogEventLabelsAlways(logLabels, transactionId) ==
    IF transactionId # << >>
    THEN logLabels \cup {[key |-> "trId", value |-> transactionId]}
    ELSE logLabels

\* the labels of the log event: the caller's, and the transaction id unless
\* one of the caller's labels has that value
LogEventLabels(logLabels, transactionId) ==
    IF transactionId # << >> /\ ~ \E l \in logLabels : l.value = transactionId
    THEN logLabels \cup {[key |-> "trId", value |-> transactionId]}
    ELSE logLabels

\* logEvent.Warn(...): one entry that renders the original
ConvLog(x, a) ==
    [x EXCEPT !.log = Append(@, [logger |-> getDefaultLogger(a.loggerToUse),
                                 level |-> "warn",
                                 labels |-> LogEventLabels(OptionsOf(a).logLabels,
                                                           a.transactionId),
                                 rendered |-> a.original])]

\* audienceMsgTemplates := fault.GetMessageTemplatesByAudience() and
\* userMsgTemplate := audienceMsgTemplates[MSGAUDIENCE_USER]
ConvReadAudience(x) ==
    [x EXCEPT !.tmp = [audienceMsgTemplates |-> x.r,
                       userMsgTemplate |-> Lookup(x.maps[x.r], MSGAUDIENCE_USER)]]

\* a promotion that leaves the user template among the audience templates,
\* which C5 tells from the code
ConvPromoteUserKeepEntry(x) ==
    IF Len(x.tmp.userMsgTemplate) > 0
    THEN WithMessageTemplate(x, x.tmp.userMsgTemplate)
    ELSE x

\* a user template becomes the message and leaves the audience templates
ConvPromoteUser(x) ==
    IF Len(x.tmp.userMsgTemplate) > 0
    THEN [WithMessageTemplate(x, x.tmp.userMsgTemplate) EXCEPT
            !.maps[x.tmp.audienceMsgTemplates] = DeleteAll(@, {MSGAUDIENCE_USER})]
    ELSE x

\* builder.WithMessageTemplatesByAudience(audienceMsgTemplates)
WithMessageTemplatesByAudienceOfTmp(x) ==
    WithMessageTemplatesByAudience(x, x.maps[x.tmp.audienceMsgTemplates])

\* the local variable neededVariables
NeededVariables(x) ==
    StringExtractVariableNames(x.tmp.userMsgTemplate)
        \cup UNION {StringExtractVariableNames(x.maps[x.tmp.audienceMsgTemplates][k]) :
                        k \in DOMAIN x.maps[x.tmp.audienceMsgTemplates]}

\* builder.WithLabel(key, value) for every label of labels whose key is in keys
RECURSIVE KeepLabels(_, _, _)
KeepLabels(x, labels, keys) ==
    IF keys = {} THEN x
    ELSE KeepLabels(WithLabel(x, CHOOSE k \in keys : TRUE,
                              labels[CHOOSE k \in keys : TRUE]),
                    labels, keys \ {CHOOSE k \in keys : TRUE})

\* the loop over fault.GetLabels(), whose reference is x.r
ConvKeepNeededLabels(x) ==
    KeepLabels(x, x.maps[x.r], (DOMAIN x.maps[x.r]) \cap NeededVariables(x))

\* what the conversion takes over from the non-public Fault original
ConvInheritFromFault(x, original) ==
    ConvKeepNeededLabels(
        GetLabels(
            WithMessageTemplatesByAudienceOfTmp(
                ConvPromoteUser(
                    ConvReadAudience(
                        GetMessageTemplatesByAudience(
                            WithIsRetryable(x, IsRetryable(x.faults[original])),
                            original)))),
            original))

\* from the options to the built Fault
ConvBuild(x, a, ord) ==
    IF x.panicked THEN [x EXCEPT !.r = 0]
    ELSE Build(IF IsFault(a.original)
               THEN ConvInheritFromFault(ConvLog(ConvDefaultMessage(x, a), a), a.original)
               ELSE ConvLog(ConvDefaultMessage(x, a), a),
               ord)

\* Returns the error in r (0: nil).  ord is the order in which the set of
\* codes hands out its elements.
NewPublicFaultFromAnyError(x, a, ord) ==
    IF a.original = 0 THEN [x EXCEPT !.r = 0]
    ELSE IF IsFault(a.original) /\ IsPublic(x.faults[a.original])
         THEN [x EXCEPT !.r = a.original]
         ELSE ConvBuild(ConvInheritCodes(ConvInternalCode(ConvStart(x, a), a), a),
                        a, ord)

---------------------------------------------------------------------------
(* util_funcs.go: the status codes.  fs are the Faults there are and fault *)
(* is the Fault asked about, 0 for nil.                                    *)

\* a GetHttpStatusCodeForFault that asks a constraint violation for
\* not_exists first and an illegal state for expectation_failed first
GetHttpStatusCodeForFaultReordered(fs, fault) ==
    IF fault = 0 THEN 200
    ELSE IF ~IsPublic(fs[fault]) THEN 500
    ELSE CASE GetKind(fs[fault]) = AuthenticationFault -> 401
           [] GetKind(fs[fault]) = AuthorizationFault -> 403
           [] GetKind(fs[fault]) = ResourceNotFoundFault -> 404
           [] GetKind(fs[fault]) = ConstraintViolationFault ->
                IF HasErrorCode(fs[fault], {CONSTRAINTVIOLATION_ERRCODE_DOES_NOT_EXIST})
                THEN 404
                ELSE IF \/ HasErrorCode(fs[fault],
                                        {CONSTRAINTVIOLATION_ERRCODE_ID_ALREADY_TAKEN})
                        \/ HasErrorCode(fs[fault],
                                        {CONSTRAINTVIOLATION_ERRCODE_ALREADY_EXIST})
                THEN 409
                ELSE 412
           [] GetKind(fs[fault]) = ValidationFault -> 400
           [] GetKind(fs[fault]) = NotImplementedFault -> 501
           [] GetKind(fs[fault]) = IllegalStateFault ->
                IF HasErrorCode(fs[fault], {ILLEGALSTATE_ERRCODE_EXCPECTATION_FAILED})
                THEN 412
                ELSE IF \/ HasErrorCode(fs[fault],
                                        {ILLEGALSTATE_ERRCODE_DEPENDENCY_UNAVAILABLE})
                        \/ HasErrorCode(fs[fault], {ILLEGALSTATE_ERRCODE_EXHAUSTED})
                        \/ HasErrorCode(fs[fault], {ILLEGALSTATE_ERRCODE_TIMED_OUT})
                THEN 503
                ELSE 500
           [] OTHER -> 500

GetHttpStatusCodeForFault(fs, fault) ==
    IF fault = 0 THEN 200
    ELSE IF ~IsPublic(fs[fault]) THEN 500
    ELSE CASE GetKind(fs[fault]) = AuthenticationFault -> 401
           [] GetKind(fs[fault]) = AuthorizationFault -> 403
           [] GetKind(fs[fault]) = ResourceNotFoundFault -> 404
           [] GetKind(fs[fault]) = ConstraintViolationFault ->
                IF \/ HasErrorCode(fs[fault],
                                   {CONSTRAINTVIOLATION_ERRCODE_ID_ALREADY_TAKEN})
                   \/ HasErrorCode(fs[fault], {CONSTRAINTVIOLATION_ERRCODE_ALREADY_EXIST})
                THEN 409
                ELSE IF HasErrorCode(fs[fault],
                                     {CONSTRAINTVIOLATION_ERRCODE_DOES_NOT_EXIST})
                THEN 404
                ELSE 412
           [] GetKind(fs[fault]) = ValidationFault -> 400
           [] GetKind(fs[fault]) = NotImplementedFault -> 501
           [] GetKind(fs[fault]) = IllegalStateFault ->
                IF \/ HasErrorCode(fs[fault],
                                   {ILLEGALSTATE_ERRCODE_DEPENDENCY_UNAVAILABLE})
                   \/ HasErrorCode(fs[fault], {ILLEGALSTATE_ERRCODE_EXHAUSTED})
                   \/ HasErrorCode(fs[fault], {ILLEGALSTATE_ERRCODE_TIMED_OUT})
                THEN 503
                ELSE IF HasErrorCode(fs[fault], {ILLEGALSTATE_ERRCODE_EXCPECTATION_FAILED})
                THEN 412
                ELSE 500
           [] OTHER -> 500

\* a GetGrpcStatusCodeForFault that groups the codes of an illegal state as
\* GetHttpStatusCodeForFault does: exhausted answers Unavailable
GetGrpcStatusCodeForFaultGrouped(fs, fault) ==
    IF fault = 0 THEN "OK"
    ELSE IF ~IsPublic(fs[fault]) THEN "Internal"
    ELSE CASE GetKind(fs[fault]) = AuthenticationFault -> "Unauthenticated"
           [] GetKind(fs[fault]) = AuthorizationFault -> "PermissionDenied"
           [] GetKind(fs[fault]) = ResourceNotFoundFault -> "NotFound"
           [] GetKind(fs[fault]) = ConstraintViolationFault ->
                IF \/ HasErrorCode(fs[fault],
                                   {CONSTRAINTVIOLATION_ERRCODE_ID_ALREADY_TAKEN})
                   \/ HasErrorCode(fs[fault], {CONSTRAINTVIOLATION_ERRCODE_ALREADY_EXIST})
                THEN "AlreadyExists"
                ELSE IF HasErrorCode(fs[fault],
                                     {CONSTRAINTVIOLATION_ERRCODE_DOES_NOT_EXIST})
                THEN "NotFound"
                ELSE "FailedPrecondition"
           [] GetKind(fs[fault]) = ValidationFault -> "InvalidArgument"
           [] GetKind(fs[fault]) = NotImplementedFault -> "Unimplemented"
           [] GetKind(fs[fault]) = IllegalStateFault ->
                IF \/ HasErrorCode(fs[fault],
                                   {ILLEGALSTATE_ERRCODE_DEPENDENCY_UNAVAILABLE})
                   \/ HasErrorCode(fs[fault], {ILLEGALSTATE_ERRCODE_EXHAUSTED})
                   \/ HasErrorCode(fs[fault], {ILLEGALSTATE_ERRCODE_TIMED_OUT})
                THEN "Unavailable"
                ELSE IF HasErrorCode(fs[fault], {ILLEGALSTATE_ERRCODE_EXCPECTATION_FAILED})
                THEN "FailedPrecondition"
                ELSE "Internal"
           [] OTHER -> "Internal"

\* the codes.Code returned, by its name
GetGrpcStatusCodeForFault(fs, fault) ==
    IF fault = 0 THEN "OK"
    ELSE IF ~IsPublic(fs[fault]) THEN "Internal"
    ELSE CASE GetKind(fs[fault]) = AuthenticationFault -> "Unauthenticated"
           [] GetKind(fs[fault]) = AuthorizationFault -> "PermissionDenied"
           [] GetKind(fs[fault]) = ResourceNotFoundFault -> "NotFound"
           [] GetKind(fs[fault]) = ConstraintViolationFault ->
                IF \/ HasErrorCode(fs[fault],
                                   {CONSTRAINTVIOLATION_ERRCODE_ID_ALREADY_TAKEN})
                   \/ HasErrorCode(fs[fault], {CONSTRAINTVIOLATION_ERRCODE_ALREADY_EXIST})
                THEN "AlreadyExists"
                ELSE IF HasErrorCode(fs[fault],
                                     {CONSTRAINTVIOLATION_ERRCODE_DOES_NOT_EXIST})
                THEN "NotFound"
                ELSE "FailedPrecondition"
           [] GetKind(fs[fault]) = ValidationFault -> "InvalidArgument"
           [] GetKind(fs[fault]) = NotImplementedFault -> "Unimplemented"
           [] GetKind(fs[fault]) = IllegalStateFault ->
                IF \/ HasErrorCode(fs[fault],
                                   {ILLEGALSTATE_ERRCODE_DEPENDENCY_UNAVAILABLE})
                   \/ HasErrorCode(fs[fault], {ILLEGALSTATE_ERRCODE_TIMED_OUT})
                THEN "Unavailable"
                ELSE IF HasErrorCode(fs[fault], {ILLEGALSTATE_ERRCODE_EXHAUSTED})
                THEN "ResourceExhausted"
                ELSE IF HasErrorCode(fs[fault], {ILLEGALSTATE_ERRCODE_EXCPECTATION_FAILED})
                THEN "FailedPrecondition"
                ELSE "Internal"
           [] OTHER -> "Internal"

---------------------------------------------------------------------------
(* fault.go: the JSON serializers.                                         *)
(* The options of a call are a set: the code only asks whether an option   *)
(* is among them.  The struct that is marshalled is built in tmp; a map    *)
(* that exists only during the call is allocated on the heap and dropped   *)
(* when the call returns.  fault is the pointer the method is called on,   *)
(* 0 for nil.                                                               *)

\* slices.Contains(options, o)
Contains(options, o) == o \in options

\* make(map, 0): a new empty map, its reference in r
AllocEmpty(x) == [x EXCEPT !.maps = Append(@, EmptyMap), !.r = Len(x.maps) + 1]

\* the package variables; labelsRef and audienceRef refer to their empty maps
EMPTY_NATURAL_FORM(labelsRef) ==
    [Kind |-> NaNKind, Message |-> << >>, ErrorCodes |-> Slice(<< >>),
     Labels |-> labelsRef, Retryable |-> FALSE]

NONPUBLIC_NATURAL_FORM(labelsRef) ==
    [Kind |-> RuntimeFault, Message |-> << >>, ErrorCodes |-> Slice(<< >>),
     Labels |-> labelsRef, Retryable |-> FALSE]

EMPTY_FAULT(audienceRef, labelsRef) ==
    [Kind |-> NaNKind, MessageTemplate |-> << >>,
     MessageTemplatesByAudience |-> audienceRef, ErrorCodes |-> Slice(<< >>),
     Labels |-> labelsRef, Retryable |-> FALSE]

NONPUBLIC_FAULT(audienceRef, labelsRef) ==
    [Kind |-> NaNKind, MessageTemplate |-> << >>,
     MessageTemplatesByAudience |-> audienceRef, ErrorCodes |-> Slice(<< >>),
     Labels |-> labelsRef, Retryable |-> FALSE]

\* encoding/json: a nil slice and a nil map are written as null
JSONArray(sl) == [isNull |-> sl.isNil, v |-> sl.elems]

JSONObject(mp, ref) == [isNull |-> ref = 0, v |-> Deref(mp, ref)]

\* a document without the field
NoField == [isNull |-> FALSE, v |-> "no field"]

\* the call returns: the maps allocated since the heap had n maps are dropped
Return(x, n) == [x EXCEPT !.maps = SubSeq(@, 1, n), !.tmp = NoTmp, !.r = 0]

\* natural = _EMPTY_NATURAL_FORM
NatEmpty(x) == [AllocEmpty(x) EXCEPT !.tmp = EMPTY_NATURAL_FORM(Len(x.maps) + 1)]

\* natural = _NONPUBLIC_NATURAL_FORM with the retryable flag of the Fault
NatRedacted(x, fault) ==
    [AllocEmpty(x) EXCEPT !.tmp = [NONPUBLIC_NATURAL_FORM(Len(x.maps) + 1) EXCEPT
                                      !.Retryable = x.faults[fault].Retryable]]

\* natural = naturalFormFault{Kind, Retryable, ErrorCodes}, nil codes made empty
NatInit(x, fault) ==
    [x EXCEPT !.tmp = [Kind |-> x.faults[fault].Kind,
                       Message |-> << >>,
                       Retryable |-> x.faults[fault].Retryable,
                       ErrorCodes |-> IF x.faults[fault].ErrorCodes.isNil
                                      THEN Slice(<< >>)
                                      ELSE x.faults[fault].ErrorCodes,
                       Labels |-> 0]]

\* natural.Labels: a copy when labels will be deleted, else the map of the
\* Fault itself, or a new map when that is nil
NatLabels(x, fault, options) ==
    IF Contains(options, ResolveMessages) /\ ~Contains(options, LeaveMessageVarsInLabels)
    THEN [GetLabels(x, fault) EXCEPT !.tmp.Labels = Len(x.maps) + 1]
    ELSE IF x.faults[fault].Labels = 0
         THEN [AllocEmpty(x) EXCEPT !.tmp.Labels = Len(x.maps) + 1]
         ELSE [x EXCEPT !.tmp.Labels = x.faults[fault].Labels]

\* the template the natural form shows: the default one, or the audience's
NatTemplate(x, fault, forAudience) ==
    IF forAudience = "" THEN x.faults[fault].MessageTemplate
    ELSE Lookup(Deref(x.maps, x.faults[fault].MessageTemplatesByAudience), forAudience)

NatMessage(x, fault, forAudience, options) ==
    [x EXCEPT !.tmp.Message =
        IF ~Contains(options, ResolveMessages) THEN NatTemplate(x, fault, forAudience)
        ELSE IF forAudience = "" THEN GetMessage(x.maps, x.faults[fault])
        ELSE GetMessageForAudience(x.maps, x.faults[fault], forAudience)]

\* the local variable msgVars
NatMsgVars(x, fault, forAudience, options) ==
    IF Contains(options, ResolveMessages) /\ ~Contains(options, LeaveMessageVarsInLabels)
    THEN StringExtractVariableNames(NatTemplate(x, fault, forAudience))
    ELSE {}

\* delete(natural.Labels, k) for the variables of the message
NatDelete(x, fault, forAudience, options) ==
    IF NatMsgVars(x, fault, forAudience, options) = {} THEN x
    ELSE [x EXCEPT !.maps[x.tmp.Labels] =
                DeleteAll(@, NatMsgVars(x, fault, forAudience, options))]

\* json.Marshal(natural) or json.MarshalIndent(natural, ...)
NatMarshal(x, options) ==
    [x EXCEPT !.doc = [form |-> "natural",
                       kind |-> x.tmp.Kind,
                       message |-> x.tmp.Message,
                       messagesByAudience |-> NoField,
                       isRetryable |-> x.tmp.Retryable,
                       errorCodes |-> JSONArray(x.tmp.ErrorCodes),
                       labels |-> JSONObject(x.maps, x.tmp.Labels),
                       pretty |-> Contains(options, PrettyPrint)]]

\* the struct natural built without the check for a non-public Fault, which
\* C2 tells from the code
NatFormUnredacted(x, fault, forAudience, options) ==
    IF fault = 0 THEN NatEmpty(x)
    ELSE NatDelete(NatMessage(NatLabels(NatInit(x, fault), fault, options),
                              fault, forAudience, options),
                   fault, forAudience, options)

\* the struct natural of ToNaturalJSON, in tmp
NatForm(x, fault, forAudience, options) ==
    IF fault = 0 THEN NatEmpty(x)
    ELSE IF ~IsPublic(x.faults[fault]) /\ ~Contains(options, AllowNonPublicSerialization)
         THEN NatRedacted(x, fault)
         ELSE NatDelete(NatMessage(NatLabels(NatInit(x, fault), fault, options),
                                   fault, forAudience, options),
                        fault, forAudience, options)

\* Returns the document in doc.
ToNaturalJSON(x, fault, forAudience, options) ==
    Return(NatMarshal(NatForm(x, fault, forAudience, options), options), Len(x.maps))

\* _fault = _EMPTY_FAULT
FullEmpty(x) ==
    [AllocEmpty(AllocEmpty(x)) EXCEPT
        !.tmp = EMPTY_FAULT(Len(x.maps) + 1, Len(x.maps) + 2)]

\* _fault = _NONPUBLIC_FAULT with the retryable flag of the Fault
FullRedacted(x, fault) ==
    [AllocEmpty(AllocEmpty(x)) EXCEPT
        !.tmp = [NONPUBLIC_FAULT(Len(x.maps) + 1, Len(x.maps) + 2) EXCEPT
                    !.Retryable = x.faults[fault].Retryable]]

\* a _fault = *fault that never copies the labels
FullCopySharingLabels(x, fault, options) == [x EXCEPT !.tmp = x.faults[fault]]

\* _fault = *fault, with a copy of the labels when labels will be deleted
FullCopy(x, fault, options) ==
    IF Contains(options, ResolveMessages) /\ ~Contains(options, LeaveMessageVarsInLabels)
    THEN [GetLabels(x, fault) EXCEPT
            !.tmp = [x.faults[fault] EXCEPT !.Labels = Len(x.maps) + 1]]
    ELSE [x EXCEPT !.tmp = x.faults[fault]]

\* the struct _fault of ToFullJSON before the messages are resolved
FullForm(x, fault, options) ==
    IF fault = 0 THEN FullEmpty(x)
    ELSE IF ~IsPublic(x.faults[fault]) /\ ~Contains(options, AllowNonPublicSerialization)
         THEN FullRedacted(x, fault)
         ELSE FullCopy(x, fault, options)

\* _fault.MessageTemplate = fault.GetMessage()
FullMessage(x, fault) ==
    [x EXCEPT !.tmp.MessageTemplate = GetMessage(x.maps, x.faults[fault])]

\* _fault.MessageTemplatesByAudience: a new map of the resolved messages of
\* every audience of the Fault
FullAudience(x, fault) ==
    [x EXCEPT
        !.maps = Append(@,
            [k \in DOMAIN Deref(x.maps, x.faults[fault].MessageTemplatesByAudience) |->
                GetMessageForAudience(x.maps, x.faults[fault], k)]),
        !.tmp.MessageTemplatesByAudience = Len(x.maps) + 1]

\* a msgVars that collects the variables of the default message only
FullMsgVarsOfDefault(x, fault, options) ==
    IF Contains(options, LeaveMessageVarsInLabels) THEN {}
    ELSE StringExtractVariableNames(x.faults[fault].MessageTemplate)

\* the local variable msgVars
FullMsgVars(x, fault, options) ==
    IF Contains(options, LeaveMessageVarsInLabels) THEN {}
    ELSE StringExtractVariableNames(x.faults[fault].MessageTemplate)
            \cup UNION {StringExtractVariableNames(
                            Deref(x.maps, x.faults[fault].MessageTemplatesByAudience)[k]) :
                        k \in DOMAIN Deref(x.maps, x.faults[fault].MessageTemplatesByAudience)}

\* delete(_fault.Labels, k) for the variables of the messages; deleting from
\* a nil map does nothing
FullDelete(x, fault, options) ==
    IF FullMsgVars(x, fault, options) = {} \/ x.tmp.Labels = 0 THEN x
    ELSE [x EXCEPT !.maps[x.tmp.Labels] = DeleteAll(@, FullMsgVars(x, fault, options))]

\* the block under `if resolveMessages`, which reads the Fault the method was
\* called on whatever _fault was taken from; on a nil Fault it dereferences
\* nil
FullResolve(x, fault, options) ==
    IF ~Contains(options, ResolveMessages) THEN x
    ELSE IF fault = 0 THEN [x EXCEPT !.panicked = TRUE]
    ELSE FullDelete(FullAudience(FullMessage(x, fault), fault), fault, options)

\* json.Marshal(_fault) or json.MarshalIndent(_fault, ...): the exported fields
FullMarshal(x, options) ==
    IF x.panicked THEN x
    ELSE [x EXCEPT !.doc =
            [form |-> "full",
             kind |-> x.tmp.Kind,
             message |-> x.tmp.MessageTemplate,
             messagesByAudience |-> JSONObject(x.maps, x.tmp.MessageTemplatesByAudience),
             isRetryable |-> x.tmp.Retryable,
             errorCodes |-> JSONArray(x.tmp.ErrorCodes),
             labels |-> JSONObject(x.maps, x.tmp.Labels),
             pretty |-> Contains(options, PrettyPrint)]]

\* Returns the document in doc.
ToFullJSON(x, fault, options) ==
    Return(FullMarshal(FullResolve(FullForm(x, fault, options), fault, options), options),
           Len(x.maps))

---------------------------------------------------------------------------
(* The inputs the callers of the model draw from. *)

CodeList == <<ILLEGALSTATE_ERRCODE_CONFIG_ERROR, ERRCODE_INTERNAL_ERROR, "custom_code">>

\* the codes callers put on a Fault
Codes == {CodeList[i] : i \in 1..MaxCodes}

\* the orders in which a set of codes may hand out its elements
CodeOrders == Orders(Codes \cup {ERRCODE_INTERNAL_ERROR})

TemplateDefault == <<"default message ", "{", "var2", "}">>
TemplateUser == <<"user message ", "{", "var1", "}">>
TemplateOperator ==
    <<"operator message ", "{", "transactionId", "}", " ", "{", "unknown_var", "}">>

\* the audience templates of a Fault: none, and maps with and without an
\* entry for the "user" audience; an entry may hold the empty template
AudienceTemplates ==
    {EmptyMap,
     [a \in {MSGAUDIENCE_USER} |-> TemplateUser],
     [a \in {MSGAUDIENCE_USER} |-> << >>],
     [a \in {"operator"} |-> TemplateOperator],
     [a \in {MSGAUDIENCE_USER, "operator"} |->
         IF a = MSGAUDIENCE_USER THEN TemplateUser ELSE TemplateOperator]}

LabelValues ==
    [k \in {"var1", "var2", "transactionId"} |->
        IF k = "var1" THEN <<"value1">>
        ELSE IF k = "var2" THEN <<"value2">> ELSE <<"inner-transaction">>]

\* the labels of a Fault, as the map handed to WithLabels: nil, or a map
LabelArgs ==
    {[isNil |-> TRUE, m |-> EmptyMap]}
        \cup {[isNil |-> FALSE, m |-> [k \in ks |-> LabelValues[k]]] :
                ks \in {{"var1", "var2"}, {"var1", "var2", "transactionId"}}}

KindsUsed == {RuntimeFault, IllegalStateFault, ValidationFault}

FaultConfigs ==
    [kind : KindsUsed, public : BOOLEAN, retryable : BOOLEAN,
     template : {TemplateDefault}, audience : AudienceTemplates,
     labels : LabelArgs, codes : {{}, Codes}]

TransactionIds == {<< >>, <<"T1">>}

Loggers == {"", "app"}

ConversionOptions ==
    {OptionLogLabels({[key |-> "tx", value |-> <<"T1">>]}),
     OptionWhitelistedFaultKinds(FALSE, {IllegalStateFault, ValidationFault}),
     OptionWhitelistedFaultKinds(TRUE, {IllegalStateFault, ValidationFault}),
     OptionWhitelistedFaultKinds(TRUE, {})}

OptionLists == SeqsUpTo(ConversionOptions, MaxOptions)

\* an error that is no Fault
PlainError == -1

\* the audiences a document is asked for; "" asks for the default message
Audiences == {"", MSGAUDIENCE_USER, "operator", "nobody"}

SerializationOptions ==
    {ResolveMessages, LeaveMessageVarsInLabels, PrettyPrint, AllowNonPublicSerialization}

\* the kinds of the builders: one that may be retryable, one that never is,
\* one whose retryable flag Build reviews
BuilderKinds == {RuntimeFault, ValidationFault, AuthenticationFault}

\* what a builder is configured with before its first Build: its kind, the
\* retryable flag asked for, labels or none, an audience template or none,
\* codes or none, a source or none
BuilderConfigs ==
    [kind : BuilderKinds,
     retryable : BOOLEAN,
     labels : {[isNil |-> TRUE, m |-> EmptyMap],
               [isNil |-> FALSE, m |-> [k \in {"var1"} |-> LabelValues[k]]]},
     audience : {EmptyMap, [a \in {"operator"} |-> TemplateOperator]},
     codes : {{}, Codes},
     source : {"", "origin"}]

\* the code a caller adds late, to a builder or to a Fault
LateCode == AUTHENTICATION_ERRCODE_MISSING

\* the orders in which the set of codes of a builder may hand out its
\* elements; the empty code, where the set holds it, comes first
BuildOrders == {<<"">> \o ord : ord \in Orders(Codes \cup {LateCode})}

\* the codes a caller adds to a built Fault in one call: one twice, the empty
\* code and one the Fault may hold
AddedCodes == <<"added_code", "", LateCode, "added_code">>

\* the labels a caller adds to a built Fault in one call, one of them under
\* the empty key
AddedLabels == [isNil |-> FALSE, m |-> [k \in {"var2", ""} |-> <<"added value">>]]

\* who adds itself to a call stack
Callers == {"handler", "service"}

\* a context put in front of an audience message
ContextPrefix == <<"while saving", " ", "-", " ">>

\* the kinds of Fault the package defines
FaultKinds ==
    {RuntimeFault, IllegalStateFault, NotImplementedFault, ValidationFault,
     ConstraintViolationFault, ResourceNotFoundFault, AuthenticationFault,
     AuthorizationFault}

\* the codes that refine a status, in the order a set of them hands them out
RefinementCodeList ==
    <<CONSTRAINTVIOLATION_ERRCODE_DOES_NOT_EXIST,
      CONSTRAINTVIOLATION_ERRCODE_ALREADY_EXIST,
      CONSTRAINTVIOLATION_ERRCODE_ID_ALREADY_TAKEN,
      ILLEGALSTATE_ERRCODE_EXCPECTATION_FAILED,
      ILLEGALSTATE_ERRCODE_DEPENDENCY_UNAVAILABLE,
      ILLEGALSTATE_ERRCODE_TIMED_OUT,
      ILLEGALSTATE_ERRCODE_EXHAUSTED>>

---------------------------------------------------------------------------
(* The state machines. *)

\* the machine before anything was allocated
EmptyMachine ==
    [maps |-> << >>, arrs |-> << >>, faults |-> << >>, b |-> NoBuilder, r |-> 0,
     doc |-> NoOut, tmp |-> NoTmp, log |-> << >>, panicked |-> FALSE]

\* the machine of the current state, for a call that uses no builder of the
\* caller
Machine ==
    [maps |-> maps, arrs |-> arrs, faults |-> faults, b |-> NoBuilder, r |-> 0,
     doc |-> NoOut, tmp |-> NoTmp, log |-> log, panicked |-> FALSE]

\* a caller builds a Fault of configuration c with a builder
MakeFault(x, c, ord) ==
    Build(
        WithIsRetryable(
            WithErrorCodes(
                WithLabels(
                    WithMessageTemplatesByAudience(
                        WithMessageTemplate(
                            WithCause(
                                WithSource(
                                    IF c.public THEN NewPublicFaultBuilder(x, c.kind)
                                    ELSE NewFaultBuilder(x, c.kind),
                                    "origin"),
                                PlainError),
                            c.template),
                        c.audience),
                    c.labels),
                c.codes),
            c.retryable),
        ord)

\* the machine of the current state with the builder in use
MachineB == [Machine EXCEPT !.b = builder]

\* a caller creates a builder and configures it as c says
ConfigureBuilder(x, c) ==
    WithErrorCodes(
        WithLabels(
            WithMessageTemplatesByAudience(
                WithMessageTemplate(
                    WithIsRetryable(
                        IF c.source = "" THEN NewFaultBuilder(x, c.kind)
                        ELSE WithSource(NewFaultBuilder(x, c.kind), c.source),
                        c.retryable),
                    TemplateDefault),
                c.audience),
            c.labels),
        c.codes)

\* the heaps and the log become those of machine x
Becomes(x) ==
    /\ maps' = x.maps
    /\ arrs' = x.arrs
    /\ faults' = x.faults
    /\ log' = x.log

\* One Fault has been built and has reached a trust boundary.
Init ==
    \E c \in FaultConfigs, ord \in CodeOrders :
        /\ maps = MakeFault(EmptyMachine, c, ord).maps
        /\ arrs = MakeFault(EmptyMachine, c, ord).arrs
        /\ faults = MakeFault(EmptyMachine, c, ord).faults
        /\ builder = NoBuilder
        /\ call = NoCall
        /\ out = NoOut
        /\ log = << >>
        /\ pc = "ready"

\* the call NewPublicFaultFromAnyError(original, transactionId, loggerToUse, options...)
ConvertCall(a, ord) ==
    /\ Becomes(NewPublicFaultFromAnyError(Machine, a, ord))
    /\ call' = [op |-> "NewPublicFaultFromAnyError",
                original |-> a.original,
                transactionId |-> a.transactionId,
                loggerToUse |-> a.loggerToUse,
                options |-> a.options,
                ret |-> NewPublicFaultFromAnyError(Machine, a, ord).r,
                panicked |-> NewPublicFaultFromAnyError(Machine, a, ord).panicked]
    /\ UNCHANGED <<builder, out>>

\* The boundary converts nil, an error that is no Fault, or the Fault.
Convert ==
    /\ pc = "ready"
    /\ \E a \in [original : {0, PlainError} \cup (1..Len(faults)),
                 transactionId : TransactionIds,
                 loggerToUse : Loggers,
                 options : OptionLists],
          ord \in CodeOrders :
            ConvertCall(a, ord)
    /\ pc' = "converted"

\* An outer boundary converts what the inner boundary returned.
Reconvert ==
    /\ pc = "converted"
    /\ call.ret > 0
    /\ \E a \in [original : {call.ret},
                 transactionId : TransactionIds,
                 loggerToUse : {call.loggerToUse},
                 options : {<< >>, call.options}],
          ord \in CodeOrders :
            ConvertCall(a, ord)
    /\ pc' = "done"

NextConv == Convert \/ Reconvert

SpecConv == Init /\ [][NextConv]_vars

\* the call fault.ToNaturalJSON(forAudience, options...); fault may be nil
SerializeNatural ==
    /\ pc = "ready"
    /\ \E fault \in 0..Len(faults), forAudience \in Audiences,
          options \in SUBSET SerializationOptions :
            /\ Becomes(ToNaturalJSON(Machine, fault, forAudience, options))
            /\ out' = ToNaturalJSON(Machine, fault, forAudience, options).doc
            /\ call' = [op |-> "ToNaturalJSON", fault |-> fault,
                        forAudience |-> forAudience, options |-> options,
                        panicked |-> FALSE]
    /\ pc' = "serialized"
    /\ UNCHANGED builder

\* the call fault.ToFullJSON(options...); fault may be nil
SerializeFull ==
    /\ pc = "ready"
    /\ \E fault \in 0..Len(faults), options \in SUBSET SerializationOptions :
            /\ Becomes(ToFullJSON(Machine, fault, options))
            /\ out' = ToFullJSON(Machine, fault, options).doc
            /\ call' = [op |-> "ToFullJSON", fault |-> fault,
                        forAudience |-> "", options |-> options,
                        panicked |-> ToFullJSON(Machine, fault, options).panicked]
    /\ pc' = "serialized"
    /\ UNCHANGED builder

\* the caller makes the call it made once more on the same Fault
SerializeAgain ==
    /\ pc = "serialized"
    /\ ~call.panicked
    /\ IF call.op = "ToNaturalJSON"
       THEN /\ Becomes(ToNaturalJSON(Machine, call.fault, call.forAudience, call.options))
            /\ out' = ToNaturalJSON(Machine, call.fault, call.forAudience,
                                    call.options).doc
       ELSE /\ Becomes(ToFullJSON(Machine, call.fault, call.options))
            /\ out' = ToFullJSON(Machine, call.fault, call.options).doc
    /\ pc' = "repeated"
    /\ UNCHANGED <<builder, call>>

NextSer == SerializeNatural \/ SerializeFull \/ SerializeAgain

SpecSer == Init /\ [][NextSer]_vars

\* A builder has been created and configured; nothing is built yet.
InitBuild ==
    \E c \in BuilderConfigs :
        /\ maps = ConfigureBuilder(EmptyMachine, c).maps
        /\ arrs = ConfigureBuilder(EmptyMachine, c).arrs
        /\ faults = << >>
        /\ builder = ConfigureBuilder(EmptyMachine, c).b
        /\ call = NoCall
        /\ out = << >>
        /\ log = << >>
        /\ pc = 0

\* a call named op on the builder (target 0) or on Fault target leaves
\* machine x
Called(op, target, x) ==
    /\ pc < MaxCalls
    /\ Becomes(x)
    /\ builder' = x.b
    /\ call' = [op |-> op, target |-> target, panicked |-> x.panicked]
    /\ pc' = pc + 1
    /\ UNCHANGED out

DoWithLabel ==
    \E key \in {"var1", "late"} :
        Called("WithLabel", 0, WithLabel(MachineB, key, <<"late value">>))

DoWithLabels ==
    Called("WithLabels", 0,
           WithLabels(MachineB, [isNil |-> FALSE,
                                 m |-> [k \in {"var2"} |-> LabelValues[k]]]))

DoWithoutLabels == Called("WithoutLabels", 0, WithoutLabels(MachineB, {"var1"}))

DoWithErrorCodes ==
    \E c \in {{LateCode}, {""}} :
        Called("WithErrorCodes", 0, WithErrorCodes(MachineB, c))

DoWithoutErrorCodes ==
    Called("WithoutErrorCodes", 0, WithoutErrorCodes(MachineB, Codes))

DoWithIsRetryable ==
    /\ pc < MaxCalls
    /\ \E flag \in BOOLEAN :
        /\ Becomes(WithIsRetryable(MachineB, flag))
        /\ builder' = WithIsRetryable(MachineB, flag).b
        /\ call' = [op |-> "WithIsRetryable", target |-> 0, panicked |-> FALSE,
                    flag |-> flag]
    /\ pc' = pc + 1
    /\ UNCHANGED out

DoWithSource == Called("WithSource", 0, WithSource(MachineB, "late source"))

DoWithMessageTemplateForAudience ==
    \E forAudience \in {MSGAUDIENCE_USER, "operator"} :
        Called("WithMessageTemplateForAudience", 0,
               WithMessageTemplateForAudience(MachineB, forAudience, TemplateUser))

DoWithMessageTemplatesByAudience ==
    Called("WithMessageTemplatesByAudience", 0,
           WithMessageTemplatesByAudience(MachineB,
                [a \in {"support"} |-> TemplateOperator]))

DoWithoutMessageTemplateForAudiences ==
    Called("WithoutMessageTemplateForAudiences", 0,
           WithoutMessageTemplateForAudiences(MachineB, {"operator"}))

DoBuild ==
    /\ Len(faults) < MaxFaults
    /\ \E ord \in BuildOrders : Called("Build", 0, Build(MachineB, ord))

DoAddLabel ==
    \E p \in 1..Len(faults), key \in {"var1", "added", ""} :
        Called("AddLabel", p, AddLabel(MachineB, p, key, <<"added value">>))

DoAddLabels ==
    \E p \in 1..Len(faults) :
        Called("AddLabels", p,
               AddLabels(MachineB, p, AddedLabels))

DoAddErrorCodes ==
    \E p \in 1..Len(faults) :
        Called("AddErrorCodes", p, AddErrorCodes(MachineB, p, AddedCodes))

DoAddCallerToCallStack ==
    /\ pc < MaxCalls
    /\ \E p \in 1..Len(faults), caller \in Callers :
        /\ Becomes(AddCallerToCallStack(MachineB, p, caller))
        /\ builder' = AddCallerToCallStack(MachineB, p, caller).b
        /\ call' = [op |-> "AddCallerToCallStack", target |-> p, panicked |-> FALSE,
                    caller |-> caller]
    /\ pc' = pc + 1
    /\ UNCHANGED out

DoAddContextToAudienceMessage ==
    /\ pc < MaxCalls
    /\ \E p \in 1..Len(faults), forAudience \in {"operator", "auditor"} :
        /\ Becomes(AddContextToAudienceMessage(MachineB, p, forAudience, ContextPrefix))
        /\ builder' = AddContextToAudienceMessage(MachineB, p, forAudience,
                                                  ContextPrefix).b
        /\ call' = [op |-> "AddContextToAudienceMessage", target |-> p,
                    panicked |-> AddContextToAudienceMessage(MachineB, p, forAudience,
                                                             ContextPrefix).panicked,
                    forAudience |-> forAudience, contextMsgTemplate |-> ContextPrefix]
    /\ pc' = pc + 1
    /\ UNCHANGED out

NextBuild ==
    \/ DoWithIsRetryable
    \/ DoWithLabel
    \/ DoWithLabels
    \/ DoWithoutLabels
    \/ DoWithErrorCodes
    \/ DoWithoutErrorCodes
    \/ DoWithSource
    \/ DoWithMessageTemplateForAudience
    \/ DoWithMessageTemplatesByAudience
    \/ DoWithoutMessageTemplateForAudiences
    \/ DoBuild
    \/ DoAddLabel
    \/ DoAddLabels
    \/ DoAddErrorCodes
    \/ DoAddCallerToCallStack
    \/ DoAddContextToAudienceMessage

SpecBuild == InitBuild /\ [][NextBuild]_vars

\* A Fault built from a configured builder is in the hands of a caller, who
\* holds nothing it returned yet.
InitAcc ==
    \E c \in BuilderConfigs, ord \in BuildOrders :
        /\ maps = Build(ConfigureBuilder(EmptyMachine, c), ord).maps
        /\ arrs = Build(ConfigureBuilder(EmptyMachine, c), ord).arrs
        /\ faults = Build(ConfigureBuilder(EmptyMachine, c), ord).faults
        /\ builder = NoBuilder
        /\ call = NoCall
        /\ out = << >>
        /\ log = << >>
        /\ pc = 0

\* accessor acc of Fault 1 returned the object at ref of the heap named; the
\* caller keeps it
Returned(acc, heap, ref, x) ==
    /\ pc < MaxCalls
    /\ Becomes(x)
    /\ out' = Append(out, [acc |-> acc, heap |-> heap, ref |-> ref])
    /\ call' = [op |-> acc, target |-> 1, held |-> Len(out) + 1, panicked |-> FALSE]
    /\ pc' = pc + 1
    /\ UNCHANGED builder

DoGetLabels == Returned("GetLabels", "maps", GetLabels(Machine, 1).r, GetLabels(Machine, 1))

DoGetMessageTemplatesByAudience ==
    Returned("GetMessageTemplatesByAudience", "maps",
             GetMessageTemplatesByAudience(Machine, 1).r,
             GetMessageTemplatesByAudience(Machine, 1))

\* the copy GetErrorCodes makes is a new array
DoGetErrorCodes ==
    Returned("GetErrorCodes", "arrs", Len(arrs) + 1,
             [Machine EXCEPT !.arrs = Append(@, GetErrorCodes(faults[1]))])

DoGetCallStack ==
    Returned("GetCallStack", "arrs", GetCallStack(Machine, 1).r.arr, GetCallStack(Machine, 1))

\* the keys a caller writes into a map it was handed
WrittenKeys == {"var1", "operator"}

\* The caller changes an object an accessor returned: it writes an entry or
\* an element, or clears the object.
MutateReturned ==
    /\ pc < MaxCalls
    /\ \E i \in 1..Len(out), change \in {"write", "clear"} :
        /\ IF out[i].heap = "maps"
           THEN /\ maps' = [maps EXCEPT ![out[i].ref] =
                                IF change = "clear" THEN EmptyMap
                                ELSE MapsCopy(@, [k \in WrittenKeys |-> <<"mutated">>])]
                /\ UNCHANGED arrs
           ELSE /\ arrs' = [arrs EXCEPT ![out[i].ref] =
                                [j \in DOMAIN @ |-> IF change = "clear" THEN ""
                                                    ELSE IF j = 1 THEN "mutated"
                                                    ELSE @[j]]]
                /\ UNCHANGED maps
        /\ call' = [op |-> "MutateReturned", target |-> 1, held |-> i,
                    panicked |-> FALSE]
    /\ pc' = pc + 1
    /\ UNCHANGED <<faults, builder, out, log>>

NextAcc ==
    \/ DoGetLabels
    \/ DoGetMessageTemplatesByAudience
    \/ DoGetErrorCodes
    \/ DoGetCallStack
    \/ MutateReturned

SpecAcc == InitAcc /\ [][NextAcc]_vars

\* A Fault of any kind, public or not, with any of the refining codes, has
\* been built.
InitStatus ==
    \E kind \in FaultKinds, public \in BOOLEAN, codes \in SUBSET Range(RefinementCodeList) :
        /\ maps = << >>
        /\ arrs = Build(WithErrorCodes(IF public
                                       THEN NewPublicFaultBuilder(EmptyMachine, kind)
                                       ELSE NewFaultBuilder(EmptyMachine, kind),
                                       codes),
                        RefinementCodeList).arrs
        /\ faults = Build(WithErrorCodes(IF public
                                         THEN NewPublicFaultBuilder(EmptyMachine, kind)
                                         ELSE NewFaultBuilder(EmptyMachine, kind),
                                         codes),
                          RefinementCodeList).faults
        /\ builder = NoBuilder
        /\ call = NoCall
        /\ out = NoOut
        /\ log = << >>
        /\ pc = "ready"

\* the call GetHttpStatusCodeForFault(fault); fault may be nil
HttpStatus ==
    /\ pc = "ready"
    /\ \E fault \in 0..Len(faults) :
        /\ call' = [op |-> "GetHttpStatusCodeForFault", fault |-> fault]
        /\ out' = [form |-> "status", status |-> GetHttpStatusCodeForFault(faults, fault)]
    /\ pc' = "answered"
    /\ UNCHANGED <<maps, arrs, faults, builder, log>>

\* the call GetGrpcStatusCodeForFault(fault); fault may be nil.  A caller who
\* asked for the HTTP status before asks about the same Fault and keeps the
\* HTTP status it was given.
GrpcStatus ==
    /\ pc \in {"ready", "answered"}
    /\ \E fault \in 0..Len(faults) :
        /\ pc = "answered" => fault = call.fault
        /\ call' = [op |-> "GetGrpcStatusCodeForFault", fault |-> fault]
        /\ out' = [form |-> "statuses",
                   status |-> GetGrpcStatusCodeForFault(faults, fault),
                   http |-> IF pc = "answered" THEN out.status ELSE 0]
    /\ pc' = "mapped"
    /\ UNCHANGED <<maps, arrs, faults, builder, log>>

NextStatus == HttpStatus \/ GrpcStatus

SpecStatus == InitStatus /\ [][NextStatus]_vars

---------------------------------------------------------------------------
(* What the properties speak of. *)

\* the last call was a conversion
ConvCall == call.op = "NewPublicFaultFromAnyError"

\* the last call was a conversion that built a new Fault
NewFaultBuilt ==
    ConvCall /\ ~call.panicked /\ call.ret > 0 /\ call.ret # call.original

\* the original of the last conversion was a Fault
FromFault == call.original > 0

Original == faults[call.original]
Converted == faults[call.ret]
OriginalAudience == Deref(maps, Original.MessageTemplatesByAudience)
ConvertedAudience == Deref(maps, Converted.MessageTemplatesByAudience)
OriginalLabels == Deref(maps, Original.Labels)
ConvertedLabels == Deref(maps, Converted.Labels)

\* the template of the original for the "user" audience, << >> if it has none
OriginalUserTemplate == Lookup(OriginalAudience, MSGAUDIENCE_USER)

\* the whitelist option in force among the options of the last conversion:
\* the last one given
WhitelistPositions ==
    {i \in DOMAIN call.options : call.options[i].id = whitelistedKindsOption}

WhitelistInForce ==
    call.options[CHOOSE i \in WhitelistPositions : \A j \in WhitelistPositions : j <= i]

\* the kind of the original was kept
KindKept ==
    FromFault /\ WhitelistPositions # {} /\ Original.Kind \in WhitelistInForce.kinds

\* the inherit-error-codes flag is set
InheritFlag == WhitelistPositions # {} /\ WhitelistInForce.flag

\* the last call serialized an existing non-public Fault
SerializedNonPublic(op) ==
    call.op = op /\ call.fault > 0 /\ ~faults[call.fault].public

---------------------------------------------------------------------------
(* The serializers (SpecSer). *)

\* C1: for a non-public Fault and options without AllowNonPublicSerialization
\* ToFullJSON writes kind "runtime", an empty message, an empty
\* messagesByAudience, empty errorCodes and empty labels, and isRetryable as
\* the Fault has it.
C1_FullJSONRedacted ==
    (SerializedNonPublic("ToFullJSON") /\ AllowNonPublicSerialization \notin call.options)
        => /\ ~call.panicked
           /\ out.kind = RuntimeFault
           /\ out.message = << >>
           /\ out.messagesByAudience = [isNull |-> FALSE, v |-> EmptyMap]
           /\ out.errorCodes = [isNull |-> FALSE, v |-> << >>]
           /\ out.labels = [isNull |-> FALSE, v |-> EmptyMap]
           /\ out.isRetryable = faults[call.fault].Retryable

\* C1, the part on leaks alone: no template or resolved message of the
\* Fault is in the document.
C1_FullJSONNoMessageLeak ==
    (SerializedNonPublic("ToFullJSON") /\ AllowNonPublicSerialization \notin call.options)
        => /\ out.message = << >>
           /\ out.messagesByAudience.v = EmptyMap

\* the document ToNaturalJSON writes for the Fault of the last call if that
\* Fault is public and holds the same kind, templates, codes and labels
NaturalOfPublicTwin ==
    ToNaturalJSON([Machine EXCEPT !.faults[call.fault].public = TRUE],
                  call.fault, call.forAudience, call.options).doc

\* C2: for a non-public Fault ToNaturalJSON writes the redacted shape (kind
\* "runtime", message "", errorCodes [], labels {}, isRetryable as the Fault
\* has it) when AllowNonPublicSerialization is not among the options, and
\* when it is among them it writes what it writes for a public Fault with
\* the same data, which shows the kind and the codes of the Fault.
C2_NaturalJSONRedaction ==
    SerializedNonPublic("ToNaturalJSON")
        => IF AllowNonPublicSerialization \notin call.options
           THEN out = [form |-> "natural",
                       kind |-> RuntimeFault,
                       message |-> << >>,
                       messagesByAudience |-> NoField,
                       isRetryable |-> faults[call.fault].Retryable,
                       errorCodes |-> [isNull |-> FALSE, v |-> << >>],
                       labels |-> [isNull |-> FALSE, v |-> EmptyMap],
                       pretty |-> PrettyPrint \in call.options]
           ELSE /\ out = NaturalOfPublicTwin
                /\ out.kind = faults[call.fault].Kind
                /\ out.errorCodes.v = faults[call.fault].ErrorCodes.elems

\* C2 happens: a non-public Fault with codes and labels and a kind other
\* than Runtime is written redacted although the messages are to be resolved
C2_Witness ==
    /\ SerializedNonPublic("ToNaturalJSON")
    /\ call.options = {ResolveMessages}
    /\ faults[call.fault].Kind # RuntimeFault
    /\ ~faults[call.fault].ErrorCodes.isNil
    /\ faults[call.fault].Labels # 0
    /\ out.kind = RuntimeFault

---------------------------------------------------------------------------
(* The conversion (SpecConv). *)

\* C3: the conversion never fails; for an original that is not nil it
\* returns a public Fault, and it returns nil only for a nil original.
C3_NeverFails ==
    ConvCall
        => /\ ~call.panicked
           /\ call.original # 0 => (call.ret > 0 /\ faults[call.ret].public)
           /\ call.original = 0 => call.ret = 0

\* the placeholder names of the audience templates of the original: those of
\* the promoted "user" template and of the templates that remain
NeededLabelKeys ==
    UNION {StringExtractVariableNames(OriginalAudience[k]) : k \in DOMAIN OriginalAudience}

\* C4: the labels of a Fault converted from a non-public Fault are exactly
\* the transactionId label, when the transaction id is not empty, and the
\* labels of the original whose key is a placeholder of the promoted "user"
\* template or of a remaining audience template, with the original's value.
C4_ConvertedLabels ==
    (NewFaultBuilt /\ FromFault)
        => ConvertedLabels =
             [k \in (IF call.transactionId # << >> THEN {"transactionId"} ELSE {})
                        \cup ((DOMAIN OriginalLabels) \cap NeededLabelKeys) |->
                 IF k = "transactionId" /\ call.transactionId # << >>
                 THEN call.transactionId
                 ELSE OriginalLabels[k]]

\* C5: when the original is a non-public Fault with a template for the
\* "user" audience (a template that is not empty), the default template of
\* the converted Fault is that template, unresolved, the converted Fault has
\* no "user" audience template, and it has every other audience template of
\* the original unchanged.
C5_UserTemplatePromoted ==
    (NewFaultBuilt /\ FromFault /\ OriginalUserTemplate # << >>)
        => /\ Converted.MessageTemplate = OriginalUserTemplate
           /\ MSGAUDIENCE_USER \notin DOMAIN ConvertedAudience
           /\ ConvertedAudience = DeleteAll(OriginalAudience, {MSGAUDIENCE_USER})

\* C5 happens: a user template with a placeholder was promoted, labels that
\* would resolve it were there, and another audience template remained
C5_Witness ==
    /\ NewFaultBuilt /\ FromFault
    /\ OriginalUserTemplate = TemplateUser
    /\ "var1" \in DOMAIN OriginalLabels
    /\ Converted.MessageTemplate = TemplateUser
    /\ DOMAIN ConvertedAudience = {"operator"}

\* C6: when the original is no Fault, or a non-public Fault without a "user"
\* audience template, the default template of the converted Fault is the
\* generic sentence with the {transactionId} placeholder if the transaction
\* id is not empty and the generic sentence without a placeholder if it is;
\* and the default template of the original is never the default template
\* or an audience template of the converted Fault.
C6_GenericDefaultMessage ==
    NewFaultBuilt
        => /\ (~FromFault \/ OriginalUserTemplate = << >>)
                => /\ Converted.MessageTemplate =
                        (IF call.transactionId # << >>
                         THEN GenericMessageWithTransactionId ELSE GenericMessage)
                   /\ "transactionId" \in StringExtractVariableNames(Converted.MessageTemplate)
                        <=> call.transactionId # << >>
           /\ FromFault
                => /\ Converted.MessageTemplate # Original.MessageTemplate
                   /\ \A k \in DOMAIN ConvertedAudience :
                        ConvertedAudience[k] # Original.MessageTemplate

\* C6 happens: a non-public Fault with a default template, another audience
\* template and no user template was converted with a transaction id
C6_Witness ==
    /\ NewFaultBuilt /\ FromFault
    /\ Original.MessageTemplate = TemplateDefault
    /\ DOMAIN OriginalAudience = {"operator"}
    /\ call.transactionId # << >>
    /\ Converted.MessageTemplate = GenericMessageWithTransactionId

\* C7: the codes of a Fault converted from a non-public Fault are "internal"
\* if and only if the kind of the original was not kept, and the codes of
\* the original if and only if the inherit-error-codes flag is set, each
\* once; with no options they are the single code "internal".
C7_ConvertedErrorCodes ==
    (NewFaultBuilt /\ FromFault)
        => /\ Range(Converted.ErrorCodes.elems) =
                (IF KindKept THEN {} ELSE {ERRCODE_INTERNAL_ERROR})
                    \cup (IF InheritFlag THEN Range(Original.ErrorCodes.elems) ELSE {})
           /\ NoDuplicates(Converted.ErrorCodes.elems)
           /\ call.options = << >> => Converted.ErrorCodes.elems = <<ERRCODE_INTERNAL_ERROR>>

\* C7 happens: the kind was kept and the codes were inherited, so that the
\* converted Fault has the codes of the original and not "internal"
C7_Witness ==
    /\ NewFaultBuilt /\ FromFault
    /\ KindKept /\ InheritFlag
    /\ Original.ErrorCodes.elems # << >>
    /\ ERRCODE_INTERNAL_ERROR \notin Range(Original.ErrorCodes.elems)
    /\ Range(Converted.ErrorCodes.elems) = Range(Original.ErrorCodes.elems)

C9_TransactionIdLabel ==
    (NewFaultBuilt /\ call.transactionId # << >>)
        => /\ "transactionId" \in DOMAIN ConvertedLabels
           /\ ConvertedLabels["transactionId"] = call.transactionId

\* C10: a conversion of a Fault that is public returns the pointer it was
\* given and changes no Fault, map or call stack; the result of a conversion
\* is public, so converting it again returns it again.
C10_PublicIdentity ==
    [][(/\ call'.op = "NewPublicFaultFromAnyError"
        /\ call'.original > 0
        /\ faults[call'.original].public)
            => /\ call'.ret = call'.original
               /\ ~call'.panicked
               /\ faults' = faults
               /\ maps' = maps
               /\ arrs' = arrs]_vars

\* C10 happens: the result of a conversion was converted again, with options
\* and a transaction id, and came back
C10_Witness ==
    /\ pc = "done"
    /\ ConvCall
    /\ call.options # << >>
    /\ call.transactionId # << >>
    /\ faults[call.original].public
    /\ call.ret = call.original
    /\ Len(faults) > 1

\* C11: a Fault converted from a non-public Fault is retryable exactly when
\* the original is, whatever its kind and the whitelist option; a Fault
\* converted from an error that is no Fault is not retryable.
C11_ConvertedRetryable ==
    NewFaultBuilt
        => Converted.Retryable = (IF FromFault THEN Original.Retryable ELSE FALSE)

\* C11 happens: a retryable original kept its kind and the converted Fault
\* is retryable
C11_Witness ==
    /\ NewFaultBuilt /\ FromFault
    /\ KindKept
    /\ Original.Retryable
    /\ Converted.Retryable

---------------------------------------------------------------------------
(* Claims on what a builder and the Faults it built share. *)

\* the labels and the error codes a Fault shows
LabelsAndCodes(mp, f) == [labels |-> Deref(mp, f.Labels), codes |-> GetErrorCodes(f)]

\* the audience templates a Fault shows
AudienceTemplatesOf(mp, f) == Deref(mp, f.MessageTemplatesByAudience)

\* the built Faults other than the target of the call being made
OtherFaults == (1..Len(faults)) \ {call'.target}

FaultLabelCodeCalls == {"AddLabel", "AddLabels", "AddErrorCodes"}

BuilderLabelCodeCalls ==
    {"WithLabel", "WithLabels", "WithoutLabels", "WithErrorCodes", "WithoutErrorCodes"}

BuilderAudienceCalls ==
    {"WithMessageTemplateForAudience", "WithMessageTemplatesByAudience",
     "WithoutMessageTemplateForAudiences"}

\* C12: a built Fault and its builder share no storage of labels or error
\* codes. AddLabel, AddLabels and AddErrorCodes on a built Fault change the
\* labels and codes of no other Fault of the builder and nothing of what the
\* builder hands to a later Build; WithLabel, WithLabels, WithoutLabels,
\* WithErrorCodes and WithoutErrorCodes on the builder change the labels and
\* codes of no Fault built before.
C12_NoSharedLabelsOrCodes ==
    [][/\ call'.op \in FaultLabelCodeCalls
            => /\ \A q \in OtherFaults :
                    LabelsAndCodes(maps', faults'[q]) = LabelsAndCodes(maps, faults[q])
               /\ LabelsAndCodes(maps', builder'.fault)
                    = LabelsAndCodes(maps, builder.fault)
               /\ builder'.fault.Labels = builder.fault.Labels
               /\ builder'.errCodes = builder.errCodes
       /\ call'.op \in BuilderLabelCodeCalls
            => \A q \in 1..Len(faults) :
                    LabelsAndCodes(maps', faults'[q]) = LabelsAndCodes(maps, faults[q])
      ]_vars

\* two Faults of a builder that has labels; a label was added to the first
\* and the second and the builder do not show it
C12_Witness ==
    /\ call.op = "AddLabel" /\ call.target = 1
    /\ Len(faults) = 2
    /\ "added" \in DOMAIN Deref(maps, faults[1].Labels)
    /\ DOMAIN Deref(maps, faults[2].Labels) = {"var1"}
    /\ DOMAIN Deref(maps, builder.fault.Labels) = {"var1"}

\* C13: a built Fault and its builder share no storage of the call stack.
\* AddCallerToCallStack on a built Fault changes the call stack (so the
\* source too) of no other Fault of the builder, and WithSource on the
\* builder changes the call stack of no Fault built before.
C13_NoSharedCallStack ==
    [][/\ call'.op = "AddCallerToCallStack"
            => \A q \in OtherFaults :
                    StoredCallStack(arrs', faults'[q]) = StoredCallStack(arrs, faults[q])
       /\ call'.op = "WithSource"
            => \A q \in 1..Len(faults) :
                    StoredCallStack(arrs', faults'[q]) = StoredCallStack(arrs, faults[q])
      ]_vars

\* C14: a built Fault and its builder share no storage of the audience
\* templates. AddContextToAudienceMessage on a built Fault changes the
\* audience templates of no other Fault of the builder and of no Fault built
\* later; WithMessageTemplateForAudience, WithMessageTemplatesByAudience and
\* WithoutMessageTemplateForAudiences on the builder change the audience
\* templates of no Fault built before.
C14_NoSharedAudienceTemplates ==
    [][/\ call'.op = "AddContextToAudienceMessage"
            => /\ \A q \in OtherFaults :
                    AudienceTemplatesOf(maps', faults'[q])
                        = AudienceTemplatesOf(maps, faults[q])
               /\ AudienceTemplatesOf(maps', builder'.fault)
                    = AudienceTemplatesOf(maps, builder.fault)
       /\ call'.op \in BuilderAudienceCalls
            => \A q \in 1..Len(faults) :
                    AudienceTemplatesOf(maps', faults'[q])
                        = AudienceTemplatesOf(maps, faults[q])
      ]_vars


---------------------------------------------------------------------------
(* Claims on what the accessors hand out. *)

\* the object a caller holds
HeldValue(mp, ar, h) == IF h.heap = "maps" THEN mp[h.ref] ELSE ar[h.ref]

\* what the four accessors read of a Fault
Collections(mp, ar, f) ==
    [labels |-> Deref(mp, f.Labels),
     audience |-> Deref(mp, f.MessageTemplatesByAudience),
     codes |-> GetErrorCodes(f),
     stack |-> StoredCallStack(ar, f)]

\* what accessor acc returns for a Fault that shows c
ReturnedFor(acc, c) ==
    CASE acc = "GetLabels" -> c.labels
      [] acc = "GetMessageTemplatesByAudience" -> c.audience
      [] acc = "GetErrorCodes" -> c.codes
      [] acc = "GetCallStack" -> Reverse(c.stack)

\* C15: GetLabels, GetErrorCodes, GetMessageTemplatesByAudience and
\* GetCallStack each return an independent copy: the object returned has the
\* content of the Fault at the call, and changing a returned object changes
\* neither the Fault nor any object returned by another call.
C15_AccessorsReturnCopies ==
    [][/\ Collections(maps', arrs', faults'[1]) = Collections(maps, arrs, faults[1])
       /\ \A j \in (1..Len(out)) \ {call'.held} :
            HeldValue(maps', arrs', out'[j]) = HeldValue(maps, arrs, out[j])
       /\ Len(out') > Len(out)
            => HeldValue(maps', arrs', out'[Len(out')])
                 = ReturnedFor(call'.op, Collections(maps, arrs, faults[1]))
      ]_vars

\* the labels of a Fault with a label were returned twice and the first map
\* returned was changed: the second and the Fault still show the label
C15_Witness ==
    /\ call.op = "MutateReturned" /\ call.held = 1
    /\ Len(out) = 2
    /\ out[1].acc = "GetLabels" /\ out[2].acc = "GetLabels"
    /\ HeldValue(maps, arrs, out[1]) # HeldValue(maps, arrs, out[2])
    /\ HeldValue(maps, arrs, out[2]) = Deref(maps, faults[1].Labels)
    /\ "var1" \in DOMAIN Deref(maps, faults[1].Labels)


---------------------------------------------------------------------------
(* Further claims on the serializers (SpecSer). *)

\* the last call wrote the content of an existing Fault: the Fault is public
\* or the options allow the serialization of a non-public Fault
SerializedContent ==
    /\ call.op \in {"ToNaturalJSON", "ToFullJSON"}
    /\ call.fault > 0
    /\ ~call.panicked
    /\ IsPublic(faults[call.fault]) \/ Contains(call.options, AllowNonPublicSerialization)

\* the last call had to take the variables of the messages out of the labels
PrunesLabels ==
    /\ Contains(call.options, ResolveMessages)
    /\ ~Contains(call.options, LeaveMessageVarsInLabels)

\* C16: ToNaturalJSON and ToFullJSON never change the Fault they serialize,
\* whatever the options: every field of the Fault, its labels and its
\* audience templates are after the call what they were before, and the same
\* call made again writes the same document.
C16_SerializersLeaveFault ==
    [][/\ faults' = faults
       /\ maps' = maps
       /\ arrs' = arrs
       /\ pc' = "repeated" => out' = out
      ]_vars

\* ToFullJSON was called twice on a Fault and took a label out of the
\* document it wrote; the Fault still has the label
C16_Witness ==
    /\ pc = "repeated"
    /\ SerializedContent /\ call.op = "ToFullJSON"
    /\ PrunesLabels
    /\ DOMAIN out.labels.v # DOMAIN Deref(maps, faults[call.fault].Labels)


\* the templates of the messages the last call rendered: the message asked
\* for in the natural form, the default and every audience message in the
\* full form
RenderedTemplates ==
    IF call.op = "ToNaturalJSON"
    THEN {IF call.forAudience = "" THEN faults[call.fault].MessageTemplate
          ELSE Lookup(AudienceTemplatesOf(maps, faults[call.fault]), call.forAudience)}
    ELSE {faults[call.fault].MessageTemplate}
            \cup Range(AudienceTemplatesOf(maps, faults[call.fault]))

\* the names between braces in the templates rendered
RenderedPlaceholders == UNION {StringExtractVariableNames(t) : t \in RenderedTemplates}

\* C17: where the content of a Fault is written (the Fault is public or
\* AllowNonPublicSerialization is given), the labels written are the labels
\* of the Fault without every key that is a placeholder of a rendered
\* message when ResolveMessages is given and LeaveMessageVarsInLabels is
\* not, and all the labels of the Fault otherwise.
C17_LabelPruning ==
    SerializedContent
        => out.labels.v =
                IF PrunesLabels
                THEN DeleteAll(Deref(maps, faults[call.fault].Labels), RenderedPlaceholders)
                ELSE Deref(maps, faults[call.fault].Labels)

\* the full form took out a label that only an audience message names and
\* kept another label
C17_Witness ==
    /\ SerializedContent /\ call.op = "ToFullJSON"
    /\ PrunesLabels
    /\ \E k \in DOMAIN Deref(maps, faults[call.fault].Labels) :
            /\ k \in RenderedPlaceholders
            /\ k \notin StringExtractVariableNames(faults[call.fault].MessageTemplate)
            /\ k \notin DOMAIN out.labels.v
    /\ DOMAIN out.labels.v # {}


\* C18: in every document ToNaturalJSON and ToFullJSON write, errorCodes is
\* an array, labels is an object and, in the full form, messagesByAudience
\* is an object: empty when there is nothing to write, never null and never
\* left out.
C18_CollectionsNeverNull ==
    out.form \in {"natural", "full"}
        => /\ ~out.errorCodes.isNull
           /\ ~out.labels.isNull
           /\ out.form = "full" => ~out.messagesByAudience.isNull

\* C19: ToNaturalJSON and ToFullJSON on a nil Fault complete under every
\* option and write the redacted document: kind "runtime", empty message,
\* no audience messages, no error codes, no labels, not retryable.
C19_NilFaultRedacted ==
    call.op \in {"ToNaturalJSON", "ToFullJSON"} /\ call.fault = 0
        => /\ ~call.panicked
           /\ out.kind = RuntimeFault
           /\ out.message = << >>
           /\ out.isRetryable = FALSE
           /\ out.errorCodes = JSONArray(Slice(<< >>))
           /\ out.labels = JSONObject(<<EmptyMap>>, 1)
           /\ out.form = "full" => out.messagesByAudience = JSONObject(<<EmptyMap>>, 1)

\* C27: a call on a nil Fault completes: no serializer call, whatever its
\* audience and options, fails when the Fault it is called on is nil.
C27_NilFaultCompletes ==
    \A options \in SUBSET SerializationOptions :
        (call.op # "none" /\ call.fault = 0 /\ call.options = options)
            => ~call.panicked


---------------------------------------------------------------------------
(* Claims on the status codes (SpecStatus). *)

\* the Fault the last call asked about holds one of the codes
Holds(codes) == Range(faults[call.fault].ErrorCodes.elems) \cap codes # {}

\* the HTTP status of the reference table for a public Fault of kind k
HttpOfPublic(k) ==
    IF k = RuntimeFault THEN 500
    ELSE IF k = AuthenticationFault THEN 401
    ELSE IF k = AuthorizationFault THEN 403
    ELSE IF k = ResourceNotFoundFault THEN 404
    ELSE IF k = ValidationFault THEN 400
    ELSE IF k = NotImplementedFault THEN 501
    ELSE IF k = ConstraintViolationFault
    THEN (IF Holds({"id_already_taken", "already_exists"}) THEN 409
          ELSE IF Holds({"not_exists"}) THEN 404
          ELSE 412)
    ELSE (IF Holds({"unavailable_dependency", "timed_out", "exhausted"}) THEN 503
          ELSE IF Holds({"expectation_failed"}) THEN 412
          ELSE 500)

\* C20: GetHttpStatusCodeForFault answers as the reference table says: 200
\* for a nil Fault, 500 for a non-public Fault of any kind with any codes,
\* and for a public Fault the status of its kind, refined by the codes it
\* holds in the order of the table, the first match winning.
C20_HttpStatusTable ==
    call.op = "GetHttpStatusCodeForFault"
        => out.status = IF call.fault = 0 THEN 200
                        ELSE IF ~faults[call.fault].public THEN 500
                        ELSE HttpOfPublic(faults[call.fault].Kind)

\* a public constraint violation that holds already_exists and not_exists
\* was answered with 409
C20_Witness ==
    /\ call.op = "GetHttpStatusCodeForFault" /\ call.fault = 1
    /\ faults[1].public
    /\ faults[1].Kind = ConstraintViolationFault
    /\ Holds({"already_exists"}) /\ Holds({"not_exists"})
    /\ out.status = 409


\* the row of the reference table for a public Fault of kind k: the HTTP
\* and the gRPC status side by side
RowOfPublic(k) ==
    IF k = RuntimeFault THEN <<500, "Internal">>
    ELSE IF k = AuthenticationFault THEN <<401, "Unauthenticated">>
    ELSE IF k = AuthorizationFault THEN <<403, "PermissionDenied">>
    ELSE IF k = ResourceNotFoundFault THEN <<404, "NotFound">>
    ELSE IF k = ValidationFault THEN <<400, "InvalidArgument">>
    ELSE IF k = NotImplementedFault THEN <<501, "Unimplemented">>
    ELSE IF k = ConstraintViolationFault
    THEN (IF Holds({"id_already_taken", "already_exists"}) THEN <<409, "AlreadyExists">>
          ELSE IF Holds({"not_exists"}) THEN <<404, "NotFound">>
          ELSE <<412, "FailedPrecondition">>)
    ELSE (IF Holds({"unavailable_dependency", "timed_out"}) THEN <<503, "Unavailable">>
          ELSE IF Holds({"exhausted"}) THEN <<503, "ResourceExhausted">>
          ELSE IF Holds({"expectation_failed"}) THEN <<412, "FailedPrecondition">>
          ELSE <<500, "Internal">>)

\* the row of the Fault the last call asked about
RowAsked ==
    IF call.fault = 0 THEN <<200, "OK">>
    ELSE IF ~faults[call.fault].public THEN <<500, "Internal">>
    ELSE RowOfPublic(faults[call.fault].Kind)

\* C21: GetGrpcStatusCodeForFault answers as the reference table says: OK
\* for a nil Fault, Internal for a non-public Fault, and for a public Fault
\* the code of its kind refined by the codes it holds, the first match
\* winning; and the HTTP status given for the same Fault is the one of the
\* same row of the table, 500 exactly where the gRPC code is Internal.
C21_GrpcStatusTable ==
    call.op = "GetGrpcStatusCodeForFault"
        => /\ out.status = RowAsked[2]
           /\ out.http # 0
                => /\ out.http = RowAsked[1]
                   /\ out.http = 500 <=> out.status = "Internal"

\* a public illegal state that holds exhausted and expectation_failed was
\* answered with 503 and ResourceExhausted
C21_Witness ==
    /\ call.op = "GetGrpcStatusCodeForFault" /\ call.fault = 1
    /\ faults[1].public
    /\ faults[1].Kind = IllegalStateFault
    /\ Holds({"exhausted"}) /\ Holds({"expectation_failed"})
    /\ ~Holds({"unavailable_dependency", "timed_out"})
    /\ out.status = "ResourceExhausted"
    /\ out.http = 503


---------------------------------------------------------------------------
(* Claims on the life of a builder and its Faults (SpecBuild). *)

\* the kinds that are never retryable
NeverRetryableKinds == {NotImplementedFault, ValidationFault, ResourceNotFoundFault}

Trimmed == {" ", "\t", "\r", "\n", "-", ":"}

\* text s without its longest tail of characters of Trimmed
WithoutTail(s) ==
    SubSeq(s, 1, CHOOSE n \in 0..Len(s) :
                    /\ n = 0 \/ s[n] \notin Trimmed
                    /\ \A i \in (n + 1)..Len(s) : s[i] \in Trimmed)

\* the audience templates after AddContextToAudienceMessage(a, prefix) on a
\* Fault whose audience templates were old
WithContext(old, a, prefix) ==
    IF a = "" \/ prefix = << >> THEN old
    ELSE [k \in DOMAIN old \cup {a} |->
            IF k # a THEN old[k]
            ELSE IF a \in DOMAIN old THEN prefix \o old[a]
            ELSE WithoutTail(prefix)]

\* C23: AddContextToAudienceMessage(audience, prefix) completes on every
\* Fault, also one built without any audience template; it creates the
\* template of the audience as the prefix without its tail of whitespace,
\* '-' and ':' where there was none, puts the prefix as it is before the
\* template where there was one, and leaves the templates of the other
\* audiences and the default template as they were; with an empty argument
\* it changes nothing.
C23_AddContextToAudienceMessage ==
    [][call'.op = "AddContextToAudienceMessage"
            => /\ ~call'.panicked
               /\ AudienceTemplatesOf(maps', faults'[call'.target])
                    = WithContext(AudienceTemplatesOf(maps, faults[call'.target]),
                                  call'.forAudience, call'.contextMsgTemplate)
               /\ GetMessageTemplate(faults'[call'.target])
                    = GetMessageTemplate(faults[call'.target])
      ]_vars


\* the codes of Fault f are distinct and none is empty, and HasErrorCode
\* tells for every list of codes whether f holds one of them
CodesFormSet(f) ==
    /\ NoDuplicates(GetErrorCodes(f))
    /\ "" \notin Range(GetErrorCodes(f))
    /\ \A cs \in SUBSET {LateCode, "added_code", "", "other_code"} :
            HasErrorCode(f, cs) <=> Range(GetErrorCodes(f)) \cap cs # {}

\* C24: after any calls of WithErrorCodes and WithoutErrorCodes on the
\* builder, of Build and of AddErrorCodes, the codes of every Fault are
\* distinct, non-empty strings and HasErrorCode(c1..cn) holds exactly when
\* the Fault holds one of the ci; AddErrorCodes keeps every code held and
\* adds the codes passed that are neither empty nor held.
C24_ErrorCodesFormSet ==
    [][/\ \A i \in 1..Len(faults') : CodesFormSet(faults'[i])
       /\ call'.op = "AddErrorCodes"
            => /\ SubSeq(GetErrorCodes(faults'[call'.target]), 1,
                         Len(GetErrorCodes(faults[call'.target])))
                    = GetErrorCodes(faults[call'.target])
               /\ Range(GetErrorCodes(faults'[call'.target]))
                    = Range(GetErrorCodes(faults[call'.target]))
                        \cup (Range(AddedCodes) \ {""})
      ]_vars


\* C25: no label is ever stored under the empty key: AddLabel("", v) stores
\* nothing, AddLabels(m) merges the entries of m other than the one under
\* the empty key, overwriting on collision, and so no Fault built through
\* WithLabel and WithLabels and changed through AddLabel and AddLabels holds
\* a label whose key is empty.
C25_NoEmptyLabelKey ==
    [][/\ \A i \in 1..Len(faults') : "" \notin DOMAIN Deref(maps', faults'[i].Labels)
       /\ call'.op = "AddLabels"
            => Deref(maps', faults'[call'.target].Labels)
                 = MapsCopy(Deref(maps, faults[call'.target].Labels),
                            DeleteAll(AddedLabels.m, {""}))
      ]_vars


\* sequence s is the beginning of sequence t
IsPrefix(s, t) == Len(s) <= Len(t) /\ SubSeq(t, 1, Len(s)) = s

\* what GetCallStack returns for Fault f
CallStackOf(ar, f) == Reverse(StoredCallStack(ar, f))

\* C26: the call stack of a Fault only grows, at its end: a Fault is built
\* with the entries WithSource gave the builder, AddCallerToCallStack adds
\* its entry after those there are, no call changes or removes an entry
\* that is there, GetCallStack returns the entries with the last added
\* first, and GetSource is the entry added first (the last of GetCallStack),
\* or the empty string where there is none.
C26_CallStackAppendOnly ==
    [][/\ \A i \in 1..Len(faults) :
            IsPrefix(StoredCallStack(arrs, faults[i]), StoredCallStack(arrs', faults'[i]))
       /\ call'.op = "AddCallerToCallStack"
            => CallStackOf(arrs', faults'[call'.target])
                 = <<call'.caller>> \o CallStackOf(arrs, faults[call'.target])
       /\ call'.op = "Build"
            => StoredCallStack(arrs', faults'[Len(faults')])
                 = StoredCallStack(arrs, builder.fault)
       /\ \A i \in 1..Len(faults') :
            GetSource(arrs', faults'[i])
                = IF CallStackOf(arrs', faults'[i]) = << >> THEN ""
                  ELSE CallStackOf(arrs', faults'[i])[Len(CallStackOf(arrs', faults'[i]))]
      ]_vars


\* what two Faults are compared by: the fields of the Fault with the
\* collections by their content, the error codes as a set
StructureOf(mp, ar, f) ==
    [kind |-> f.Kind,
     template |-> f.MessageTemplate,
     audience |-> Deref(mp, f.MessageTemplatesByAudience),
     retryable |-> f.Retryable,
     codes |-> Range(GetErrorCodes(f)),
     labels |-> Deref(mp, f.Labels),
     public |-> f.public,
     cause |-> f.cause,
     callStack |-> StoredCallStack(ar, f)]

\* C28: Build can be repeated and leaves the builder as it is: the Fault
\* of a Build that follows a Build at once is structurally equal to the
\* Fault of the first (kind, templates, audience templates, retryable,
\* error codes, labels, public, cause, call stack).
C28_BuildRepeatable ==
    [][(call.op = "Build" /\ call'.op = "Build")
          => /\ StructureOf(maps', arrs', faults'[Len(faults')])
                  = StructureOf(maps, arrs, faults[Len(faults)])
             /\ builder' = builder
      ]_vars

\* C29: the cause of a converted Fault is the very error that was given to
\* the conversion, and the conversion leaves a Fault it was given as it
\* was: kind, templates, audience templates with the "user" entry that was
\* promoted, error codes, labels, retryable, cause and call stack.
C29_CauseIsUntouchedOriginal ==
    [][(/\ call'.op = "NewPublicFaultFromAnyError"
        /\ ~call'.panicked
        /\ call'.ret > 0
        /\ call'.ret # call'.original)
            => /\ GetCause(faults'[call'.ret]) = call'.original
               /\ call'.original > 0
                    => /\ faults'[call'.original] = faults[call'.original]
                       /\ StructureOf(maps', arrs', faults'[call'.original])
                            = StructureOf(maps, arrs, faults[call'.original])
      ]_vars

\* C29 happens: a Fault with a template for the "user" audience was
\* converted; the converted Fault has it as its cause and has no "user"
\* entry, the original still has it
C29_Witness ==
    /\ NewFaultBuilt /\ FromFault
    /\ GetCause(Converted) = call.original
    /\ OriginalUserTemplate = TemplateUser
    /\ MSGAUDIENCE_USER \notin DOMAIN ConvertedAudience
    /\ OriginalLabels # EmptyMap
    /\ StoredCallStack(arrs, Original) = <<"origin">>
    /\ GetCause(Original) = PlainError

\* the entry the conversion of the step wrote last
LastEntry == log'[Len(log')]

\* the label the conversion adds for the transaction id of the step
TrIdLabel == [key |-> "trId", value |-> call'.transactionId]

\* C30: a conversion that builds a new Fault writes exactly one log entry,
\* of level warn, that renders the original; a conversion of nil or of a
\* public Fault writes none.  With a transaction id the entry has the
\* label trId with it, unless a label the caller gave has that value; the
\* labels the caller gave are on the entry.
C30_OneWarning ==
    [][call'.op = "NewPublicFaultFromAnyError"
          => /\ (~call'.panicked /\ call'.ret > 0 /\ call'.ret # call'.original)
                  => /\ log' = Append(log, LastEntry)
                     /\ LastEntry.level = "warn"
                     /\ LastEntry.rendered = call'.original
                     /\ OptionsOf(call').logLabels \subseteq LastEntry.labels
                     /\ LastEntry.labels \subseteq OptionsOf(call').logLabels \cup {TrIdLabel}
                     /\ TrIdLabel \in LastEntry.labels
                          <=> /\ call'.transactionId # << >>
                              /\ \A l \in OptionsOf(call').logLabels :
                                    l.value # call'.transactionId
             /\ (call'.original = 0 \/ call'.ret = call'.original) => log' = log
      ]_vars

\* C30 happens: a conversion with a transaction id built a Fault and its
\* one entry has the caller's label of that value and no trId label; the
\* conversion of the public Fault it returned wrote nothing more
C30_Witness ==
    /\ pc = "done"
    /\ ConvCall /\ call.ret = call.original
    /\ Len(log) = 1
    /\ log[1].level = "warn"
    /\ log[1].labels = {[key |-> "tx", value |-> <<"T1">>]}
    /\ faults[call.ret].cause = log[1].rendered

====
